---- MODULE Spec2Model ----
(***************************************************************************)
(* Benchmark execution engine of lambdust's benchmark scripts:             *)
(*   - BenchmarkRunner (run_comprehensive_benchmarks.py): the parameter    *)
(*     expander, run_single_test, the sweep, run()                         *)
(*   - PerformanceMonitor (scripts/performance_monitor.py): the background *)
(*     sampling thread, start_monitoring / stop_monitoring                 *)
(* Times are integers (clock ticks); a float quotient a / b is kept as the *)
(* exact fraction <<a, b>>.                                                *)
(***************************************************************************)
EXTENDS Integers, Sequences, FiniteSets, TLC

VARIABLES
    \* ---- parameter expander, called on its own ----
    parameters,        \* the schema handed to generate_parameter_combinations
    combinations,      \* what the first call returned
    combinations2,     \* what a second call on the same schema returned
    calls,             \* number of calls made
    \* ---- BenchmarkRunner ----
    config,            \* self.config
    run_pc,            \* position in run()
    impl_i,            \* run_native_benchmarks: index of the loop over implementations
    results,           \* run_native_benchmarks: local dict impl id -> list of records
    job_i,             \* run_implementation_benchmarks: index into the nested loops
    impl_results,      \* run_implementation_benchmarks: local list `results`
    rst_pc,            \* position in run_single_test
    temp_files,        \* temporary source files that exist on disk
    files_created,     \* number of temporary files created so far
    warm_i,            \* warmup invocations executed by the current call
    timing_results,    \* run_single_test: timing_results
    error,             \* run_single_test: local `error` (Unbound before its first assignment)
    broke,             \* the timed loop was left by `break`
    timed_log,         \* outcome of every timed invocation of the current call
    result,            \* value returned by run_single_test, before it is appended
    all_results,       \* run(): all_results
    raised,            \* exception that left run_native_benchmarks, "none" if none
    collected,         \* every record run_single_test has returned so far, with its implementation
    config_file,       \* the file at args.config: "ok", "missing" or "malformed"
    args,              \* self.args: regression_baseline (None or a path), generate_report
    baseline_file,     \* what open / json.load find at args.regression_baseline
    available,         \* ids of the implementations whose binary can be run
    docker_output,     \* the Docker benchmarks leave a result file to parse
    invoked,           \* ids of the implementations execute_test_file was called for
    report,            \* what generate_comprehensive_report wrote, NoResult if nothing
    \* ---- PerformanceMonitor ----
    sampling_interval, \* self.sampling_interval
    monitoring,        \* self.monitoring
    metrics_history,   \* self.metrics_history
    process_history,   \* self.process_history (a defaultdict(list))
    monitor_thread,    \* self._monitor_thread: NoThread or the thread started last
    target_processes,  \* self._target_processes
    thread_pc,         \* position of each sampling thread in _monitor_loop
    thread_sample,     \* _monitor_loop: local system_metrics of each thread
    thread_wake,       \* clock value at which the thread's time.sleep ends
    now,               \* time.time()
    live,              \* pids of the processes that exist
    call_pc,           \* position of the caller inside stop_monitoring
    join_deadline,     \* clock value at which join(timeout) gives up
    stop_ret,          \* value returned by the last stop_monitoring
    stop_inactive,     \* the last stop_monitoring was called with monitoring false
    last_call,         \* the last start_monitoring / stop_monitoring call
    starts,            \* number of sampling threads started so far
    \* ---- statistics and regression detection, called on inputs of their own ----
    data_a,            \* compare_implementations: data_a
    data_b,            \* compare_implementations: data_b
    comparison,        \* what compare_implementations returned (or the exception it raised)
    native_items,      \* perform_statistical_analysis: results.items(), in dict order
    statistical_results, \* what perform_statistical_analysis returned (or the exception)
    current_items,     \* detect_regressions: results.items(), in dict order
    baseline_results,  \* detect_regressions: the content of the baseline file
    regression_results, \* what detect_regressions returned
    \* ---- BenchmarkProcessor, called on raw results of its own ----
    output_config,     \* self.output_config
    raw_results,       \* what load_raw_results returned, in glob order
    proc_pc,           \* position in process_all_results
    organized_results, \* what organize_results returned
    stats_results,     \* what generate_statistics returned
    comparison_results \* what generate_comparisons returned

expandVars == <<parameters, combinations, combinations2, calls>>
runnerVars == <<config, run_pc, impl_i, results, job_i, impl_results, rst_pc, temp_files,
                files_created, warm_i, timing_results, error, broke, timed_log, result,
                all_results, raised, collected, config_file, args, baseline_file,
                available, docker_output, invoked, report>>
envVars == <<config_file, args, baseline_file, available, docker_output>>
monitorVars == <<sampling_interval, monitoring, metrics_history, process_history,
                 monitor_thread, target_processes, thread_pc, thread_sample, thread_wake,
                 now, live, call_pc, join_deadline, stop_ret, stop_inactive, last_call,
                 starts>>
analysisVars == <<data_a, data_b, comparison, native_items, statistical_results,
                  current_items, baseline_results, regression_results>>
processVars == <<output_config, raw_results, proc_pc, organized_results, stats_results,
                 comparison_results>>
vars == <<expandVars, runnerVars, monitorVars, analysisVars, processVars>>

-----------------------------------------------------------------------------
(* Bounds *)
MaxParams == 2       \* parameters of a schema
MaxValues == 2       \* value entries of one parameter
MaxIter == 3         \* configured iterations, single-test configurations
MaxSweepIter == 1    \* configured iterations, multi-test configurations
MaxWarmup == 1       \* configured warmup_iterations
MaxElapsed == 1      \* elapsed clock ticks of one invocation
MaxThreads == 2      \* sampling threads started over the life of one monitor
MaxSamples == 1      \* system samples in metrics_history
MaxTime == 1         \* clock ticks (seconds) that pass
MaxInterval == 1     \* sampling_interval, in seconds
MaxTimings == 3      \* timings of one sample handed to compare_implementations
MaxStatImpls == 3    \* implementations in the results handed to perform_statistical_analysis
MaxDetectImpls == 1  \* implementations in the results handed to detect_regressions
MaxBaseline == 2     \* baseline entries of one implementation
MaxPipelineIter == 2 \* configured iterations, configurations run with every environment
MaxRaw == 3          \* raw results handed to process_all_results
MaxRepeat == 4       \* raw results of one test on one implementation
MaxDuration == 2     \* duration of one raw result

-----------------------------------------------------------------------------
(* Python dicts are functions over a finite set of keys *)
EmptyDict == [k \in {} |-> "none"]

DictSet(d, k, v) == [n \in (DOMAIN d) \cup {k} |-> IF n = k THEN v ELSE d[n]]

DictGet(d, k, default) == IF k \in DOMAIN d THEN d[k] ELSE default

-----------------------------------------------------------------------------
(* generate_parameter_combinations *)

\* the types of the if/elif chain; every other type falls into `else: continue`
SupportedType(t) == t \in {"Integer", "Float", "String", "Boolean"}

\* faulty variant: no `else: continue`, a value of any type extends the combinations
ExtendCombos_NoTypeCheck(combos, name, value_def) ==
    [i \in 1..Len(combos) |-> DictSet(combos[i], name, value_def.value)]

\* the inner loop `for existing_combo in combinations` for one value_def
ExtendCombos(combos, name, value_def) ==
    IF SupportedType(value_def.type)
    THEN [i \in 1..Len(combos) |-> DictSet(combos[i], name, value_def.value)]
    ELSE <<>>

\* faulty variant: the loop over the values stops before the last value
RECURSIVE ForValues_DropLast(_, _, _, _)
ForValues_DropLast(values, j, combos, name) ==
    IF j >= Len(values) THEN <<>>
    ELSE ExtendCombos(combos, name, values[j]) \o ForValues_DropLast(values, j + 1, combos, name)

\* the loop `for value_def in param['values']`, from index j on
RECURSIVE ForValues(_, _, _, _)
ForValues(values, j, combos, name) ==
    IF j > Len(values) THEN <<>>
    ELSE ExtendCombos(combos, name, values[j]) \o ForValues(values, j + 1, combos, name)

\* the loop `for param in parameters`, from index p on
RECURSIVE ForParams(_, _, _)
ForParams(params, p, combos) ==
    IF p > Len(params) THEN combos
    ELSE ForParams(params, p + 1, ForValues(params[p].values, 1, combos, params[p].name))

generate_parameter_combinations(params) ==
    IF params = <<>> THEN <<EmptyDict>>
    ELSE ForParams(params, 1, <<EmptyDict>>)

-----------------------------------------------------------------------------
(* BenchmarkRunner: configurations *)

Unbound == "<unbound>"      \* a local name that has not been assigned yet
NoResult == [none |-> TRUE]

ElapsedTimes == 0..MaxElapsed

IntValue(v) == [type |-> "Integer", value |-> v]

\* one category, one test without parameters: a single run_single_test per implementation
SingleCategories ==
    << [name |-> "core", tests |-> << [name |-> "fib", parameters |-> <<>>] >>] >>

\* one category, one test with one parameter of two values: two combinations
SweepCategories ==
    << [name |-> "core",
        tests |-> << [name |-> "fib",
                      parameters |-> << [name |-> "n",
                                         values |-> <<IntValue("1"), IntValue("2")>>] >>] >>] >>

\* two categories; the first has a test with two combinations and a test without
\* parameters: four run_single_test calls per implementation
OrderCategories ==
    << [name |-> "core",
        tests |-> << [name |-> "fib",
                      parameters |-> << [name |-> "n",
                                         values |-> <<IntValue("1"), IntValue("2")>>] >>],
                     [name |-> "sort", parameters |-> <<>>] >>],
       [name |-> "io", tests |-> << [name |-> "read", parameters |-> <<>>] >>] >>

SingleImplementations == << [id |-> "chibi"] >>

SweepImplementations == << [id |-> "chibi"], [id |-> "lambdust"], [id |-> "guile"] >>

Configs ==
    { [implementations |-> SingleImplementations, test_categories |-> SingleCategories,
       iterations |-> it, warmup |-> w] : it \in 0..MaxIter, w \in 0..MaxWarmup }
    \cup
    { [implementations |-> SweepImplementations, test_categories |-> SweepCategories,
       iterations |-> it, warmup |-> w] : it \in 0..MaxSweepIter, w \in 0..MaxWarmup }
    \cup
    { [implementations |-> SingleImplementations, test_categories |-> OrderCategories,
       iterations |-> 1, warmup |-> 0] }

\* three implementations, one test without parameters
PipelineConfigs ==
    { [implementations |-> SweepImplementations, test_categories |-> SingleCategories,
       iterations |-> it, warmup |-> 0] : it \in 1..MaxPipelineIter }

AllImplIds == {"chibi", "lambdust", "guile"}

\* everything available, guile missing, only lambdust available, nothing available
Availabilities == { AllImplIds, AllImplIds \ {"guile"}, {"lambdust"}, {} }

-----------------------------------------------------------------------------
(* run_implementation_benchmarks: the three nested loops, flattened in loop order *)

JobsOfTest(category, test) ==
    LET combos == generate_parameter_combinations(test.parameters)
    IN  [i \in 1..Len(combos) |->
            [category |-> category.name, test |-> test, params |-> combos[i]]]

RECURSIVE JobsOfTests(_, _)
JobsOfTests(category, t) ==
    IF t > Len(category.tests) THEN <<>>
    ELSE JobsOfTest(category, category.tests[t]) \o JobsOfTests(category, t + 1)

RECURSIVE JobsOfCategories(_, _)
JobsOfCategories(categories, c) ==
    IF c > Len(categories) THEN <<>>
    ELSE JobsOfTests(categories[c], 1) \o JobsOfCategories(categories, c + 1)

Jobs == JobsOfCategories(config.test_categories, 1)

-----------------------------------------------------------------------------
(* execute_test_file *)

\* what the spawned process can do: exit 0 after some time, exit nonzero with some
\* stderr text, outlive the timeout, or fail to spawn (text is then str(e))
ProcessBehaviours ==
    [kind : {"exit0"}, text : {""}, elapsed : ElapsedTimes]
    \cup [kind : {"nonzero"}, text : {"", "boom"}, elapsed : {0}]
    \cup [kind : {"timeout"}, text : {""}, elapsed : {0}]
    \cup [kind : {"spawn-error"}, text : {"No such file"}, elapsed : {0}]

\* faulty variant: no `except subprocess.TimeoutExpired` clause, the timeout is reported by
\* the generic clause as str(e)
execute_test_file_NoTimeoutClause(b) ==
    CASE b.kind \in {"exit0", "nonzero"} ->
            [success |-> (b.kind = "exit0"), error |-> b.text]
      [] OTHER ->
            [success |-> FALSE, error |-> b.text]

execute_test_file(b) ==
    CASE b.kind \in {"exit0", "nonzero"} ->
            [success |-> (b.kind = "exit0"), error |-> b.text]
      [] b.kind = "timeout" ->
            [success |-> FALSE, error |-> "Test timed out"]
      [] OTHER ->
            [success |-> FALSE, error |-> b.text]

-----------------------------------------------------------------------------
(* run_single_test: the record it returns *)

RECURSIVE SeqSum(_)
SeqSum(s) == IF s = <<>> THEN 0 ELSE Head(s) + SeqSum(Tail(s))

\* mean_time = sum(timing_results) / len(timing_results), as a fraction
MeanTime(timings) == <<SeqSum(timings), Len(timings)>>

\* faulty variant: the mean itself instead of its reciprocal
OpsPerSecond_NoReciprocal(timings) ==
    LET mean == MeanTime(timings)
    IN  IF mean[1] > 0 THEN mean ELSE <<0, 1>>

\* ops_per_second = 1.0 / mean_time if mean_time > 0 else 0
OpsPerSecond(timings) ==
    LET mean == MeanTime(timings)
    IN  IF mean[1] > 0 THEN <<mean[2], mean[1]>> ELSE <<0, 1>>

\* `error or 'Test execution failed'`
ErrorOrDefault(e) == IF e = "" THEN "Test execution failed" ELSE e

\* faulty variant: a run whose last invocation reported an error is returned as failed
ResultRecord_FailOnError(impl, job, timings, err) ==
    IF timings # <<>> /\ err = ""
    THEN [implementation |-> impl.id, test_name |-> job.test.name,
          category |-> job.category, parameters |-> job.params,
          success |-> TRUE, mean_time_seconds |-> MeanTime(timings),
          ops_per_second |-> OpsPerSecond(timings),
          timing_results |-> timings, iterations |-> Len(timings)]
    ELSE [implementation |-> impl.id, test_name |-> job.test.name,
          category |-> job.category, parameters |-> job.params,
          success |-> FALSE, error |-> ErrorOrDefault(err),
          timing_results |-> <<>>]

ResultRecord(impl, job, timings, err) ==
    IF timings # <<>>
    THEN [implementation |-> impl.id, test_name |-> job.test.name,
          category |-> job.category, parameters |-> job.params,
          success |-> TRUE, mean_time_seconds |-> MeanTime(timings),
          ops_per_second |-> OpsPerSecond(timings),
          timing_results |-> timings, iterations |-> Len(timings)]
    ELSE [implementation |-> impl.id, test_name |-> job.test.name,
          category |-> job.category, parameters |-> job.params,
          success |-> FALSE, error |-> ErrorOrDefault(err),
          timing_results |-> <<>>]

-----------------------------------------------------------------------------
(* Float arithmetic on exact fractions <<numerator, denominator>>, denominator > 0 *)

FracLess(x, y) == x[1] * y[2] < y[1] * x[2]

FracEq(x, y) == x[1] * y[2] = y[1] * x[2]

FracSub(x, y) == <<x[1] * y[2] - y[1] * x[2], x[2] * y[2]>>

FracAbs(x) == IF x[1] < 0 THEN <<0 - x[1], x[2]>> ELSE x

\* x / y for y > 0
FracDiv(x, y) == <<x[1] * y[2], x[2] * y[1]>>

\* sum((x - mean) ** 2 for x in data), mean = sum(data) / len(data), for non-empty data
RECURSIVE SumScaledSquares(_, _, _)
SumScaledSquares(data, n, total) ==
    IF data = <<>> THEN 0
    ELSE (n * Head(data) - total) * (n * Head(data) - total)
            + SumScaledSquares(Tail(data), n, total)

SumSquaredDev(data) ==
    <<SumScaledSquares(data, Len(data), SeqSum(data)), Len(data) * Len(data)>>

-----------------------------------------------------------------------------
(* compare_implementations *)

ZeroDivisionError == [raised |-> "ZeroDivisionError"]

\* the square of pooled_std: (ss_a + ss_b) / (len(data_a) + len(data_b) - 2)
PooledVariance(a, b) ==
    LET ss_a == SumSquaredDev(a)
        ss_b == SumSquaredDev(b)
    IN  <<ss_a[1] * ss_b[2] + ss_b[1] * ss_a[2],
          ss_a[2] * ss_b[2] * (Len(a) + Len(b) - 2)>>

\* (mean_a - mean_b) / pooled_std, held as the exact fraction effect_size * |effect_size|
\* = diff * |diff| / pooled_std ** 2 (the map x -> x * |x| is one to one and keeps the
\* sign, zero, and order: |effect_size| > 0.5 iff |held value| > 1/4)
EffectSize(diff, pooled_var) ==
    IF pooled_var[1] > 0
    THEN FracDiv(<<diff[1] * FracAbs(diff)[1], diff[2] * diff[2]>>, pooled_var)
    ELSE <<0, 1>>

compare_implementations(a, b, impl_a, impl_b, test_key) ==
    IF a = <<>> \/ b = <<>>
    THEN [impl_a |-> impl_a, impl_b |-> impl_b, test |-> test_key,
          significant |-> FALSE, effect_size |-> <<0, 1>>, performance_ratio |-> <<1, 1>>]
    ELSE IF Len(a) + Len(b) - 2 = 0
    THEN ZeroDivisionError
    ELSE LET mean_a == MeanTime(a)
             mean_b == MeanTime(b)
             effect_size == EffectSize(FracSub(mean_a, mean_b), PooledVariance(a, b))
         IN  [impl_a |-> impl_a, impl_b |-> impl_b, test |-> test_key,
              mean_a |-> mean_a, mean_b |-> mean_b,
              effect_size |-> effect_size,
              significant |-> FracLess(<<1, 4>>, FracAbs(effect_size)),
              performance_ratio |-> IF mean_a[1] > 0 THEN FracDiv(mean_b, mean_a)
                                                     ELSE <<1, 1>>,
              winner |-> IF FracLess(mean_a, mean_b) THEN impl_a ELSE impl_b]

-----------------------------------------------------------------------------
(* Python dicts whose iteration order matters: sequences of <<key, value>> in
   insertion order *)

OrdHas(od, k) == \E i \in 1..Len(od) : od[i][1] = k

OrdGet(od, k) == od[CHOOSE i \in 1..Len(od) : od[i][1] = k][2]

\* od[k] = v: a new key goes last, an existing key keeps its position
OrdSet(od, k, v) ==
    IF OrdHas(od, k)
    THEN [i \in 1..Len(od) |-> IF od[i][1] = k THEN <<k, v>> ELSE od[i]]
    ELSE Append(od, <<k, v>>)

-----------------------------------------------------------------------------
(* calculate_descriptive_stats *)

RECURSIVE Insert(_, _)
Insert(x, s) ==
    IF s = <<>> THEN <<x>>
    ELSE IF x <= Head(s) THEN <<x>> \o s
    ELSE <<Head(s)>> \o Insert(x, Tail(s))

\* sorted(values)
RECURSIVE Sorted(_)
Sorted(s) == IF s = <<>> THEN <<>> ELSE Insert(Head(s), Sorted(Tail(s)))

\* std_dev is held as its square, the variance
calculate_descriptive_stats(timings) ==
    IF timings = <<>> THEN EmptyDict
    ELSE LET values == Sorted(timings)
             n == Len(values)
             ss == SumSquaredDev(values)
         IN  [count |-> n,
              mean |-> <<SeqSum(values), n>>,
              median |-> IF n % 2 = 1 THEN <<values[(n \div 2) + 1], 1>>
                         ELSE <<values[n \div 2] + values[(n \div 2) + 1], 2>>,
              std_dev |-> IF n > 1 THEN <<ss[1], ss[2] * (n - 1)>> ELSE <<0, 1>>,
              min |-> values[1],
              max |-> values[n],
              q25 |-> values[(n \div 4) + 1],
              q75 |-> values[((3 * n) \div 4) + 1]]

-----------------------------------------------------------------------------
(* perform_statistical_analysis *)

\* test_key = f"{result['category']}_{result['test_name']}"
TestKey(r) == r.category \o "_" \o r.test_name

\* the body of `for result in impl_results`: grouped_results[test_key][impl_id] = timings
GroupResult_KeepFailed(grouped, impl_id, r) ==
    \* faulty variant: the success check is missing
    LET test_key == TestKey(r)
        test_data == IF OrdHas(grouped, test_key) THEN OrdGet(grouped, test_key) ELSE <<>>
    IN  OrdSet(grouped, test_key, OrdSet(test_data, impl_id, r.timing_results))

GroupResult(grouped, impl_id, r) ==
    IF ~r.success THEN grouped
    ELSE LET test_key == TestKey(r)
             test_data == IF OrdHas(grouped, test_key) THEN OrdGet(grouped, test_key)
                                                       ELSE <<>>
         IN  OrdSet(grouped, test_key, OrdSet(test_data, impl_id, r.timing_results))

RECURSIVE GroupImplResults(_, _, _)
GroupImplResults(grouped, impl_id, impl_recs) ==
    IF impl_recs = <<>> THEN grouped
    ELSE GroupImplResults(GroupResult(grouped, impl_id, Head(impl_recs)), impl_id,
                          Tail(impl_recs))

\* the loop `for impl_id, impl_results in results.items()`
RECURSIVE GroupResults(_, _)
GroupResults(grouped, items) ==
    IF items = <<>> THEN grouped
    ELSE GroupResults(GroupImplResults(grouped, Head(items)[1], Head(items)[2]), Tail(items))

\* the loop `for impl_id, timings in test_data.items()` of one test
RECURSIVE StatsOfTest(_, _, _)
StatsOfTest(stats, test_key, test_data) ==
    IF test_data = <<>> THEN stats
    ELSE LET impl_id == Head(test_data)[1]
             timings == Head(test_data)[2]
         IN  StatsOfTest(IF timings # <<>>
                         THEN DictSet(stats, test_key \o "_" \o impl_id,
                                      calculate_descriptive_stats(timings))
                         ELSE stats,
                         test_key, Tail(test_data))

RECURSIVE DescriptiveStats(_, _)
DescriptiveStats(stats, grouped) ==
    IF grouped = <<>> THEN stats
    ELSE DescriptiveStats(StatsOfTest(stats, Head(grouped)[1], Head(grouped)[2]),
                          Tail(grouped))

\* the loops `for i in range(len(impl_ids))`, `for j in range(i + 1, len(impl_ids))`
RECURSIVE PairwiseOfTest(_, _, _, _)
PairwiseOfTest(test_key, test_data, i, j) ==
    IF i > Len(test_data) THEN <<>>
    ELSE IF j > Len(test_data) THEN PairwiseOfTest(test_key, test_data, i + 1, i + 2)
    ELSE <<compare_implementations(test_data[i][2], test_data[j][2],
                                   test_data[i][1], test_data[j][1], test_key)>>
            \o PairwiseOfTest(test_key, test_data, i, j + 1)

RECURSIVE PairwiseComparisons(_)
PairwiseComparisons(grouped) ==
    IF grouped = <<>> THEN <<>>
    ELSE PairwiseOfTest(Head(grouped)[1], Head(grouped)[2], 1, 2)
            \o PairwiseComparisons(Tail(grouped))

\* an exception raised by compare_implementations is not caught here
perform_statistical_analysis(items) ==
    LET grouped_results == GroupResults(<<>>, items)
        comparisons == PairwiseComparisons(grouped_results)
    IN  IF \E i \in 1..Len(comparisons) : comparisons[i] = ZeroDivisionError
        THEN ZeroDivisionError
        ELSE [descriptive_stats |-> DescriptiveStats(EmptyDict, grouped_results),
              pairwise_comparisons |-> comparisons,
              effect_sizes |-> EmptyDict,
              outliers |-> EmptyDict]

-----------------------------------------------------------------------------
(* detect_regressions *)

None == "None"

\* faulty variant: the parameters are not compared
Matches_IgnoreParameters(baseline_result, r) ==
    /\ baseline_result.test_name = r.test_name
    /\ baseline_result.category = r.category

\* the condition of the loop that looks for the matching baseline test
Matches(baseline_result, r) ==
    /\ baseline_result.test_name = r.test_name
    /\ baseline_result.category = r.category
    /\ baseline_result.parameters = r.parameters

\* index of the first matching entry of baseline_impl from k on (the loop breaks at
\* it), 0 when baseline_test stays None
RECURSIVE FindBaselineTest(_, _, _)
FindBaselineTest(baseline_impl, r, k) ==
    IF k > Len(baseline_impl) THEN 0
    ELSE IF Matches(baseline_impl[k], r) THEN k
    ELSE FindBaselineTest(baseline_impl, r, k + 1)

\* ((current_perf - baseline_perf) / baseline_perf) * 100, for baseline_perf > 0
ChangePercent(current_perf, baseline_perf) ==
    LET q == FracDiv(FracSub(current_perf, baseline_perf), baseline_perf)
    IN  <<100 * q[1], q[2]>>

\* faulty variant: the thresholds themselves count as a change
Classify_Inclusive(change_percent) ==
    IF ~FracLess(<<0 - 5, 1>>, change_percent) THEN "regression"
    ELSE IF ~FracLess(change_percent, <<5, 1>>) THEN "improvement"
    ELSE "none"

\* `if change_percent < -5.0: ... elif change_percent > 5.0: ...`
Classify(change_percent) ==
    IF FracLess(change_percent, <<0 - 5, 1>>) THEN "regression"
    ELSE IF FracLess(<<5, 1>>, change_percent) THEN "improvement"
    ELSE "none"

\* the body of `for result in impl_results`; found is the pair of lists
\* [regressions, improvements]
DetectResult(found, impl_id, baseline_impl, r) ==
    IF ~r.success THEN found
    ELSE LET k == FindBaselineTest(baseline_impl, r, 1)
         IN  IF k = 0 THEN found
             ELSE LET current_perf == r.ops_per_second
                      baseline_perf == baseline_impl[k].ops_per_second
                      change_percent == ChangePercent(current_perf, baseline_perf)
                  IN  IF ~(baseline_perf[1] > 0) THEN found
                      ELSE IF Classify(change_percent) = "regression"
                      THEN [found EXCEPT !.regressions = Append(@,
                              [implementation |-> impl_id, test |-> r.test_name,
                               category |-> r.category,
                               degradation_percent |-> FracAbs(change_percent),
                               current_performance |-> current_perf,
                               baseline_performance |-> baseline_perf])]
                      ELSE IF Classify(change_percent) = "improvement"
                      THEN [found EXCEPT !.improvements = Append(@,
                              [implementation |-> impl_id, test |-> r.test_name,
                               category |-> r.category,
                               improvement_percent |-> change_percent,
                               current_performance |-> current_perf,
                               baseline_performance |-> baseline_perf])]
                      ELSE found

RECURSIVE DetectImplResults(_, _, _, _)
DetectImplResults(found, impl_id, baseline_impl, impl_recs) ==
    IF impl_recs = <<>> THEN found
    ELSE DetectImplResults(DetectResult(found, impl_id, baseline_impl, Head(impl_recs)),
                           impl_id, baseline_impl, Tail(impl_recs))

\* the loop `for impl_id, impl_results in results.items()`
RECURSIVE DetectResults(_, _, _)
DetectResults(found, baseline, items) ==
    IF items = <<>> THEN found
    ELSE DetectResults(IF Head(items)[1] \in DOMAIN baseline
                       THEN DetectImplResults(found, Head(items)[1],
                                              baseline[Head(items)[1]], Head(items)[2])
                       ELSE found,
                       baseline, Tail(items))

\* faulty variant: an unreadable baseline yields a section with two empty lists
detect_regressions_EmptySection(regression_baseline, file, items) ==
    IF regression_baseline = None THEN EmptyDict
    ELSE LET found == IF file.readable
                      THEN DetectResults([regressions |-> <<>>, improvements |-> <<>>],
                                         file.content, items)
                      ELSE [regressions |-> <<>>, improvements |-> <<>>]
         IN  [regressions |-> found.regressions,
              improvements |-> found.improvements,
              baseline_file |-> regression_baseline]

\* regression_baseline is args.regression_baseline (None or a path), file what open and
\* json.load find at that path: [readable |-> FALSE] (missing, unreadable, not JSON:
\* every exception ends in `except Exception: return {}`) or the loaded content
detect_regressions(regression_baseline, file, items) ==
    IF regression_baseline = None THEN EmptyDict
    ELSE IF ~file.readable THEN EmptyDict
    ELSE LET found == DetectResults([regressions |-> <<>>, improvements |-> <<>>],
                                    file.content, items)
         IN  [regressions |-> found.regressions,
              improvements |-> found.improvements,
              baseline_file |-> regression_baseline]

-----------------------------------------------------------------------------
(* BenchmarkRunner: run() -> run_native_benchmarks -> run_implementation_benchmarks
   -> run_single_test *)

CurrentImpl == config.implementations[impl_i]

\* what a process spawned for an implementation can do: the binary of an
\* implementation that is not available cannot be spawned
BehavioursOf(id) ==
    IF id \in available THEN ProcessBehaviours
    ELSE { b \in ProcessBehaviours : b.kind = "spawn-error" }

InSweep == run_pc = "native" /\ impl_i <= Len(config.implementations)

\* no --regression-baseline, no --generate-report
DefaultArgs == [regression_baseline |-> None, generate_report |-> FALSE]

\* a path at which open or json.load fails
NoFile == [readable |-> FALSE]

ReportArgs == [regression_baseline |-> None, generate_report |-> TRUE]

BaselineArgs == [regression_baseline |-> "baseline.json", generate_report |-> TRUE]

\* a baseline file with one entry for chibi: core/fib at 1 op/s
RunnerBaseline ==
    [readable |-> TRUE,
     content |-> DictSet(EmptyDict, "chibi",
                    << [test_name |-> "fib", category |-> "core", parameters |-> EmptyDict,
                        ops_per_second |-> <<1, 1>>] >>)]

RunnerIdle ==
    /\ config = [implementations |-> <<>>, test_categories |-> <<>>,
                 iterations |-> 0, warmup |-> 0]
    /\ run_pc = "off"
    /\ impl_i = 1
    /\ results = EmptyDict
    /\ job_i = 1
    /\ impl_results = <<>>
    /\ rst_pc = "idle"
    /\ temp_files = {}
    /\ files_created = 0
    /\ warm_i = 0
    /\ timing_results = <<>>
    /\ error = Unbound
    /\ broke = FALSE
    /\ timed_log = <<>>
    /\ result = NoResult
    /\ all_results = EmptyDict
    /\ raised = "none"
    /\ collected = {}
    /\ config_file = "ok"
    /\ args = DefaultArgs
    /\ baseline_file = NoFile
    /\ available = {}
    /\ docker_output = FALSE
    /\ invoked = {}
    /\ report = NoResult

\* an exception leaves run_single_test and unwinds run_implementation_benchmarks and
\* run_native_benchmarks (neither catches) up to the except clause of run(): the
\* locals of the unwound frames are gone, all_results is left as it was
Unwind(exception) ==
    /\ raised' = exception
    /\ run_pc' = "docker"
    /\ rst_pc' = "idle"
    /\ results' = EmptyDict
    /\ impl_results' = <<>>
    /\ warm_i' = 0
    /\ timing_results' = <<>>
    /\ error' = Unbound
    /\ broke' = FALSE
    /\ timed_log' = <<>>
    /\ result' = NoResult
    /\ UNCHANGED <<config, impl_i, job_i, all_results, collected>>

\* run_native_benchmarks: `if impl['id'] == 'lambdust': continue`
SkipLambdust ==
    /\ InSweep /\ rst_pc = "idle"
    /\ CurrentImpl.id = "lambdust"
    /\ impl_i' = impl_i + 1
    /\ UNCHANGED <<config, run_pc, results, job_i, impl_results, rst_pc, temp_files,
                   files_created, warm_i, timing_results, error, broke, timed_log,
                   result, all_results, raised, collected>>
    /\ UNCHANGED <<envVars, invoked, report>>
    /\ UNCHANGED <<expandVars, monitorVars, analysisVars, processVars>>

\* run_single_test up to the end of the `with` block: the temporary file is created
\* (delete=False) and the source is written to it
CreateTempFile ==
    /\ InSweep /\ rst_pc = "idle"
    /\ CurrentImpl.id # "lambdust"
    /\ job_i <= Len(Jobs)
    /\ \/ \* created and written
          /\ temp_files' = temp_files \cup {files_created + 1}
          /\ files_created' = files_created + 1
          /\ rst_pc' = "running"
          /\ warm_i' = 0
          /\ timing_results' = <<>>
          /\ error' = Unbound
          /\ broke' = FALSE
          /\ timed_log' = <<>>
          /\ UNCHANGED <<config, run_pc, impl_i, results, job_i, impl_results, result,
                         all_results, raised, collected>>
       \/ \* NamedTemporaryFile raises: no file, the exception propagates
          /\ UNCHANGED <<temp_files, files_created>>
          /\ Unwind("io-error")
       \/ \* f.write (or the flush on close) raises: the file exists, the with block
          \* closes it, delete=False keeps it, the try/finally is never entered
          /\ temp_files' = temp_files \cup {files_created + 1}
          /\ files_created' = files_created + 1
          /\ Unwind("io-error")
    /\ UNCHANGED <<envVars, invoked, report>>
    /\ UNCHANGED <<expandVars, monitorVars, analysisVars, processVars>>

\* one warmup invocation; its outcome is dropped
WarmupRun ==
    /\ InSweep /\ rst_pc = "running"
    /\ warm_i < config.warmup
    /\ \E b \in BehavioursOf(CurrentImpl.id) :
          /\ execute_test_file(b) \in [success : BOOLEAN, error : STRING]
          /\ warm_i' = warm_i + 1
    /\ UNCHANGED <<config, run_pc, impl_i, results, job_i, impl_results, rst_pc, temp_files,
                   files_created, timing_results, error, broke, timed_log, result,
                   all_results, raised, collected>>
    /\ invoked' = invoked \cup {CurrentImpl.id}
    /\ UNCHANGED <<envVars, report>>
    /\ UNCHANGED <<expandVars, monitorVars, analysisVars, processVars>>

\* faulty variant: a failed invocation does not leave the loop
TimedRun_NoBreak ==
    /\ InSweep /\ rst_pc = "running"
    /\ warm_i = config.warmup
    /\ ~broke
    /\ Len(timed_log) < config.iterations
    /\ \E b \in BehavioursOf(CurrentImpl.id) :
          LET r == execute_test_file(b)
          IN  /\ timed_log' = Append(timed_log, b)
              /\ error' = r.error
              /\ IF r.success
                 THEN timing_results' = Append(timing_results, b.elapsed)
                 ELSE timing_results' = timing_results
              /\ broke' = FALSE
    /\ UNCHANGED <<config, run_pc, impl_i, results, job_i, impl_results, rst_pc, temp_files,
                   files_created, warm_i, result, all_results, raised, collected>>
    /\ invoked' = invoked \cup {CurrentImpl.id}
    /\ UNCHANGED <<envVars, report>>
    /\ UNCHANGED <<expandVars, monitorVars, analysisVars, processVars>>

\* one timed invocation of `for i in range(iterations)`
TimedRun ==
    /\ InSweep /\ rst_pc = "running"
    /\ warm_i = config.warmup
    /\ ~broke
    /\ Len(timed_log) < config.iterations
    /\ \E b \in BehavioursOf(CurrentImpl.id) :
          LET r == execute_test_file(b)
          IN  /\ timed_log' = Append(timed_log, b)
              /\ error' = r.error
              /\ IF r.success
                 THEN /\ timing_results' = Append(timing_results, b.elapsed)
                      /\ broke' = FALSE
                 ELSE /\ timing_results' = timing_results
                      /\ broke' = TRUE
    /\ UNCHANGED <<config, run_pc, impl_i, results, job_i, impl_results, rst_pc, temp_files,
                   files_created, warm_i, result, all_results, raised, collected>>
    /\ invoked' = invoked \cup {CurrentImpl.id}
    /\ UNCHANGED <<envVars, report>>
    /\ UNCHANGED <<expandVars, monitorVars, analysisVars, processVars>>

\* the end of run_single_test: the record is built and the finally clause unlinks the
\* temporary file. With no timing and `error` never assigned (iterations = 0) the
\* expression `error or ...` raises UnboundLocalError, after which finally still runs.
FinishTest ==
    /\ InSweep /\ rst_pc = "running"
    /\ warm_i = config.warmup
    /\ broke \/ Len(timed_log) = config.iterations
    /\ temp_files' = temp_files \ {files_created}
    /\ UNCHANGED files_created
    /\ IF timing_results = <<>> /\ error = Unbound
       THEN Unwind("unbound-local")
       ELSE /\ result' = ResultRecord(CurrentImpl, Jobs[job_i], timing_results, error)
            /\ rst_pc' = "returned"
            /\ UNCHANGED <<config, run_pc, impl_i, results, job_i, impl_results, warm_i,
                           timing_results, error, broke, timed_log, all_results, raised,
                           collected>>
    /\ UNCHANGED <<envVars, invoked, report>>
    /\ UNCHANGED <<expandVars, monitorVars, analysisVars, processVars>>

\* faulty variant: the record is put in front of the list
AppendResult_Prepends ==
    /\ InSweep /\ rst_pc = "returned"
    /\ impl_results' = <<result>> \o impl_results
    /\ collected' = collected \cup
          {[impl |-> CurrentImpl.id, index |-> Len(impl_results) + 1, rec |-> result]}
    /\ job_i' = job_i + 1
    /\ rst_pc' = "idle"
    /\ result' = NoResult
    /\ warm_i' = 0
    /\ timing_results' = <<>>
    /\ error' = Unbound
    /\ broke' = FALSE
    /\ timed_log' = <<>>
    /\ UNCHANGED <<config, run_pc, impl_i, results, temp_files, files_created,
                   all_results, raised>>
    /\ UNCHANGED <<envVars, invoked, report>>
    /\ UNCHANGED <<expandVars, monitorVars, analysisVars, processVars>>

\* run_implementation_benchmarks: results.append(result), next combination
AppendResult ==
    /\ InSweep /\ rst_pc = "returned"
    /\ impl_results' = Append(impl_results, result)
    /\ collected' = collected \cup
          {[impl |-> CurrentImpl.id, index |-> Len(impl_results) + 1, rec |-> result]}
    /\ job_i' = job_i + 1
    /\ rst_pc' = "idle"
    /\ result' = NoResult
    /\ warm_i' = 0
    /\ timing_results' = <<>>
    /\ error' = Unbound
    /\ broke' = FALSE
    /\ timed_log' = <<>>
    /\ UNCHANGED <<config, run_pc, impl_i, results, temp_files, files_created,
                   all_results, raised>>
    /\ UNCHANGED <<envVars, invoked, report>>
    /\ UNCHANGED <<expandVars, monitorVars, analysisVars, processVars>>

\* run_native_benchmarks: results[impl['id']] = impl_results, next implementation
FinishImplementation ==
    /\ InSweep /\ rst_pc = "idle"
    /\ CurrentImpl.id # "lambdust"
    /\ job_i > Len(Jobs)
    /\ results' = DictSet(results, CurrentImpl.id, impl_results)
    /\ impl_results' = <<>>
    /\ job_i' = 1
    /\ impl_i' = impl_i + 1
    /\ UNCHANGED <<config, run_pc, rst_pc, temp_files, files_created, warm_i,
                   timing_results, error, broke, timed_log, result, all_results, raised,
                   collected>>
    /\ UNCHANGED <<envVars, invoked, report>>
    /\ UNCHANGED <<expandVars, monitorVars, analysisVars, processVars>>

\* run(): all_results['native_results'] = native_results
ReturnNative ==
    /\ run_pc = "native"
    /\ impl_i > Len(config.implementations)
    /\ all_results' = DictSet(all_results, "native_results", results)
    /\ run_pc' = "docker"
    /\ results' = EmptyDict
    /\ UNCHANGED <<config, impl_i, job_i, impl_results, rst_pc, temp_files, files_created,
                   warm_i, timing_results, error, broke, timed_log, result, raised,
                   collected>>
    /\ UNCHANGED <<envVars, invoked, report>>
    /\ UNCHANGED <<expandVars, monitorVars, analysisVars, processVars>>

-----------------------------------------------------------------------------
(* BenchmarkRunner: main() and the steps of run() around the native sweep *)

\* the locals of the sweep, which the other steps of run() do not touch
sweepVars == <<impl_i, results, job_i, impl_results, rst_pc, temp_files, files_created,
               warm_i, timing_results, error, broke, timed_log, result, raised, collected>>

\* faulty variant: a configuration that cannot be loaded does not end the run
LoadConfiguration_GoesOn ==
    /\ run_pc = "load"
    /\ run_pc' = "check"
    /\ UNCHANGED <<config, all_results, sweepVars, envVars, invoked, report>>
    /\ UNCHANGED <<expandVars, monitorVars, analysisVars, processVars>>

\* main() and BenchmarkRunner.__init__: a missing configuration file ends main() with
\* sys.exit(1), one that cannot be loaded ends load_configuration with sys.exit(1)
LoadConfiguration ==
    /\ run_pc = "load"
    /\ run_pc' = IF config_file = "ok" THEN "check" ELSE "exit"
    /\ UNCHANGED <<config, all_results, sweepVars, envVars, invoked, report>>
    /\ UNCHANGED <<expandVars, monitorVars, analysisVars, processVars>>

\* check_system_requirements: the list available_impls is a local that is printed and
\* counted; run() exits when Docker is missing or no implementation is available
AvailableImpls ==
    { config.implementations[i].id : i \in
        { j \in 1..Len(config.implementations) :
            config.implementations[j].id \in available } }

CheckSystemRequirements ==
    /\ run_pc = "check"
    /\ \E docker_available \in BOOLEAN :
          run_pc' = IF docker_available /\ Cardinality(AvailableImpls) > 0
                    THEN "build" ELSE "exit"
    /\ UNCHANGED <<config, all_results, sweepVars, envVars, invoked, report>>
    /\ UNCHANGED <<expandVars, monitorVars, analysisVars, processVars>>

\* build_lambdust: run() exits when cargo build fails
BuildLambdust ==
    /\ run_pc = "build"
    /\ \E built \in BOOLEAN : run_pc' = IF built THEN "native" ELSE "exit"
    /\ UNCHANGED <<config, all_results, sweepVars, envVars, invoked, report>>
    /\ UNCHANGED <<expandVars, monitorVars, analysisVars, processVars>>

\* what parse_docker_results loads from the result file
DockerResults == DictSet(EmptyDict, "lambdust", "docker")

\* run_docker_benchmarks: `if docker_results:`; a failed benchmark.sh, a missing
\* result file and an exception all leave all_results as it is
RunDockerBenchmarks ==
    /\ run_pc = "docker"
    /\ all_results' = IF docker_output
                       THEN DictSet(all_results, "docker_results", DockerResults)
                       ELSE all_results
    /\ run_pc' = "analysis"
    /\ UNCHANGED <<config, sweepVars, envVars, invoked, report>>
    /\ UNCHANGED <<expandVars, monitorVars, analysisVars, processVars>>

\* native_results.items(): the keys in the order run_native_benchmarks inserted them,
\* the order of config['implementations']
RECURSIVE ItemsInOrder(_, _, _)
ItemsInOrder(d, impls, i) ==
    IF i > Len(impls) THEN <<>>
    ELSE (IF impls[i].id \in DOMAIN d THEN << <<impls[i].id, d[impls[i].id]>> >> ELSE <<>>)
            \o ItemsInOrder(d, impls, i + 1)

NativeItems == ItemsInOrder(DictGet(all_results, "native_results", EmptyDict),
                            config.implementations, 1)

\* run(): the statistical analysis; an exception is caught and printed
PerformStatisticalAnalysis ==
    /\ run_pc = "analysis"
    /\ all_results' =
          IF "native_results" \in DOMAIN all_results
                /\ perform_statistical_analysis(NativeItems) # ZeroDivisionError
          THEN DictSet(all_results, "statistical_analysis",
                       perform_statistical_analysis(NativeItems))
          ELSE all_results
    /\ run_pc' = "regression"
    /\ UNCHANGED <<config, sweepVars, envVars, invoked, report>>
    /\ UNCHANGED <<expandVars, monitorVars, analysisVars, processVars>>

\* run(): regression detection; `if regression_results:` drops the empty dict
DetectRegressions ==
    /\ run_pc = "regression"
    /\ LET found == detect_regressions(args.regression_baseline, baseline_file, NativeItems)
       IN  all_results' = IF found # EmptyDict
                          THEN DictSet(all_results, "regression_analysis", found)
                          ELSE all_results
    /\ run_pc' = "report"
    /\ UNCHANGED <<config, sweepVars, envVars, invoked, report>>
    /\ UNCHANGED <<expandVars, monitorVars, analysisVars, processVars>>

\* run(): `if self.args.generate_report and all_results:`; an exception while the
\* files are written is caught and printed
GenerateReport ==
    /\ run_pc = "report"
    /\ \/ /\ args.generate_report /\ all_results # EmptyDict
          /\ report' = all_results
       \/ /\ args.generate_report /\ all_results # EmptyDict
          /\ UNCHANGED report
       \/ /\ ~(args.generate_report /\ all_results # EmptyDict)
          /\ UNCHANGED report
    /\ run_pc' = "done"
    /\ UNCHANGED <<config, all_results, sweepVars, envVars, invoked>>
    /\ UNCHANGED <<expandVars, monitorVars, analysisVars, processVars>>

-----------------------------------------------------------------------------
(* The parameter expander called on a schema of its own *)

ParamNames == {"a", "b"}

ValueDefs ==
    { [type |-> "Integer", value |-> "1"],
      [type |-> "String", value |-> "x"],
      [type |-> "Symbol", value |-> "q"] }

SeqsUpTo(S, n) == UNION { [1..k -> S] : k \in 0..n }

Schemas == SeqsUpTo([name : ParamNames, values : SeqsUpTo(ValueDefs, MaxValues)], MaxParams)

ExpandIdle ==
    /\ parameters = <<>>
    /\ combinations = <<>>
    /\ combinations2 = <<>>
    /\ calls = 0

Expand ==
    /\ calls = 0
    /\ combinations' = generate_parameter_combinations(parameters)
    /\ calls' = 1
    /\ UNCHANGED <<parameters, combinations2>>
    /\ UNCHANGED <<runnerVars, monitorVars, analysisVars, processVars>>

ExpandAgain ==
    /\ calls = 1
    /\ combinations2' = generate_parameter_combinations(parameters)
    /\ calls' = 2
    /\ UNCHANGED <<parameters, combinations>>
    /\ UNCHANGED <<runnerVars, monitorVars, analysisVars, processVars>>

-----------------------------------------------------------------------------
(* compare_implementations called on two samples of its own *)

Samples == SeqsUpTo(ElapsedTimes, MaxTimings)

DetectIdle ==
    /\ current_items = <<>>
    /\ baseline_results = EmptyDict
    /\ regression_results = NoResult

AnalysisIdle ==
    /\ data_a = <<>>
    /\ data_b = <<>>
    /\ comparison = NoResult
    /\ native_items = <<>>
    /\ statistical_results = NoResult
    /\ DetectIdle

Compare ==
    /\ comparison = NoResult
    /\ comparison' = compare_implementations(data_a, data_b, "chibi", "guile", "core_fib")
    /\ UNCHANGED <<data_a, data_b, native_items, statistical_results, current_items,
                   baseline_results, regression_results>>
    /\ UNCHANGED <<expandVars, runnerVars, monitorVars, processVars>>

-----------------------------------------------------------------------------
(* perform_statistical_analysis called on native results of its own *)

StatImplIds == <<"chibi", "guile", "gauche", "racket">>

StatJob(test_name, n) ==
    [category |-> "core", test |-> [name |-> test_name], params |-> DictSet(EmptyDict, "n", n)]

\* the (category, test, combination) lists of a sweep: one test, one test with two
\* combinations, two tests
StatJobLists ==
    { <<StatJob("fib", "1")>>,
      <<StatJob("fib", "1"), StatJob("fib", "2")>>,
      <<StatJob("fib", "1"), StatJob("sort", "1")>> }

\* timing_results of one record; the empty one stands for a failed test
StatSamples == { <<>>, <<1>>, <<1, 1>>, <<0, 1>> }

\* results of a completed sweep: every implementation has one record per job
StatItemsOf(n, jobs, samples) ==
    [i \in 1..n |->
        <<StatImplIds[i],
          [j \in 1..Len(jobs) |->
              ResultRecord([id |-> StatImplIds[i]], jobs[j], samples[i][j], "boom")]>>]

Analyze ==
    /\ native_items # <<>>
    /\ statistical_results = NoResult
    /\ statistical_results' = perform_statistical_analysis(native_items)
    /\ UNCHANGED <<data_a, data_b, comparison, native_items, current_items,
                   baseline_results, regression_results>>
    /\ UNCHANGED <<expandVars, runnerVars, monitorVars, processVars>>

-----------------------------------------------------------------------------
(* detect_regressions called on current results and a baseline of its own *)

DetectImplIds == <<"chibi", "guile", "gauche">>

DetectJob(test_name, category, n) ==
    [category |-> category, test |-> [name |-> test_name],
     params |-> DictSet(EmptyDict, "n", n)]

\* the jobs of the current sweep
DetectJobLists ==
    { <<DetectJob("fib", "core", "1")>>,
      <<DetectJob("fib", "core", "1"), DetectJob("fib", "core", "2")>> }

\* the jobs a baseline entry can be about: the current ones and ones that differ from
\* the first in the test name or in the category
BaselineJobs ==
    { DetectJob("fib", "core", "1"), DetectJob("fib", "core", "2"),
      DetectJob("sort", "core", "1"), DetectJob("fib", "io", "1") }

\* ops_per_second of a current record (0 stands for a failed test)
CurrentOps == {0, 90, 95, 96, 105, 110}

BaselineOps == {0, 100}

CurrentRecord(impl_id, job, ops) ==
    IF ops > 0
    THEN [implementation |-> impl_id, test_name |-> job.test.name,
          category |-> job.category, parameters |-> job.params, success |-> TRUE,
          ops_per_second |-> <<ops, 1>>]
    ELSE [implementation |-> impl_id, test_name |-> job.test.name,
          category |-> job.category, parameters |-> job.params, success |-> FALSE,
          error |-> "boom"]

CurrentItemsOf(n, jobs, ops) ==
    [i \in 1..n |->
        <<DetectImplIds[i],
          [j \in 1..Len(jobs) |-> CurrentRecord(DetectImplIds[i], jobs[j], ops[i][j])]>>]

BaselineEntry(job, ops) ==
    [test_name |-> job.test.name, category |-> job.category, parameters |-> job.params,
     ops_per_second |-> <<ops, 1>>]

\* the entries of one implementation in a baseline file: one per job at most, as a
\* sweep writes them
BaselineLists ==
    { l \in SeqsUpTo([job : BaselineJobs, ops : BaselineOps], MaxBaseline) :
        \A i, j \in 1..Len(l) : l[i].job = l[j].job => i = j }

BaselineOf(impl_id, l) ==
    DictSet(EmptyDict, impl_id, [i \in 1..Len(l) |-> BaselineEntry(l[i].job, l[i].ops)])

Detect ==
    /\ current_items # <<>>
    /\ regression_results = NoResult
    /\ regression_results' =
          detect_regressions("baseline.json",
                             [readable |-> TRUE, content |-> baseline_results],
                             current_items)
    /\ UNCHANGED <<data_a, data_b, comparison, native_items, statistical_results,
                   current_items, baseline_results>>
    /\ UNCHANGED <<expandVars, runnerVars, monitorVars, processVars>>

-----------------------------------------------------------------------------
(* BenchmarkProcessor (scripts/process_results.py): organize_results,
   generate_statistics, generate_comparisons; save_results only writes what they
   returned to files and is left out *)

\* the body of `for result in raw_results`
OrganizeResult_KeepFailed(organized, r) ==
    \* faulty variant: the success check is missing
    LET test_results == IF OrdHas(organized, r.test) THEN OrdGet(organized, r.test)
                                                     ELSE <<>>
        impl_results_ == IF OrdHas(test_results, r.implementation)
                         THEN OrdGet(test_results, r.implementation) ELSE <<>>
    IN  OrdSet(organized, r.test,
               OrdSet(test_results, r.implementation, Append(impl_results_, r)))

OrganizeResult(organized, r) ==
    IF ~r.success THEN organized
    ELSE LET test_results == IF OrdHas(organized, r.test) THEN OrdGet(organized, r.test)
                                                          ELSE <<>>
             impl_results_ == IF OrdHas(test_results, r.implementation)
                              THEN OrdGet(test_results, r.implementation) ELSE <<>>
         IN  OrdSet(organized, r.test,
                    OrdSet(test_results, r.implementation, Append(impl_results_, r)))

RECURSIVE OrganizeFrom(_, _)
OrganizeFrom(organized, raw) ==
    IF raw = <<>> THEN organized
    ELSE OrganizeFrom(OrganizeResult(organized, Head(raw)), Tail(raw))

organize_results(raw) == OrganizeFrom(<<>>, raw)

\* [r.get(key, 0) for r in impl_results if r.get(key) is not None]
RECURSIVE FieldValues(_, _)
FieldValues(recs, key) ==
    IF recs = <<>> THEN <<>>
    ELSE (IF key \in DOMAIN Head(recs) THEN <<Head(recs)[key]>> ELSE <<>>)
            \o FieldValues(Tail(recs), key)

\* statistics.mean
Mean(data) == <<SeqSum(data), Len(data)>>

\* statistics.median
Median(data) ==
    LET values == Sorted(data)
        n == Len(values)
    IN  IF n % 2 = 1 THEN <<values[(n \div 2) + 1], 1>>
        ELSE <<values[n \div 2] + values[(n \div 2) + 1], 2>>

\* statistics.stdev(data) if len(data) > 1 else 0.0, held as its square
StdevOrZero(data) ==
    LET ss == SumSquaredDev(data)
    IN  IF Len(data) > 1 THEN <<ss[1], ss[2] * (Len(data) - 1)>> ELSE <<0, 1>>

\* statistics.quantiles(data, n=n)[i - 1], the default 'exclusive' method
Quantile(data, n, i) ==
    LET values == Sorted(data)
        ld == Len(values)
        m == ld + 1
        j0 == (i * m) \div n
        j == IF j0 < 1 THEN 1 ELSE IF j0 > ld - 1 THEN ld - 1 ELSE j0
        delta == i * m - j * n
    IN  <<values[j] * (n - delta) + values[j + 1] * delta, n>>

Max(data) == Sorted(data)[Len(data)]

Min(data) == Sorted(data)[1]

\* impl_stats of one implementation of one test
ImplStats(impl_results_) ==
    LET durations == FieldValues(impl_results_, "duration")
        user_times == FieldValues(impl_results_, "user_time")
        memory_usage == FieldValues(impl_results_, "max_memory_kb")
    IN  [count |-> Len(durations),
         duration_mean |-> Mean(durations),
         duration_median |-> Median(durations),
         duration_stdev |-> StdevOrZero(durations),
         duration_min |-> Min(durations),
         duration_max |-> Max(durations)]
        @@ (IF Len(durations) >= 4
            THEN [duration_p25 |-> Quantile(durations, 4, 1),
                  duration_p75 |-> Quantile(durations, 4, 3)]
            ELSE EmptyDict)
        @@ (IF Len(durations) >= 10
            THEN [duration_p90 |-> Quantile(durations, 10, 9),
                  duration_p95 |-> Quantile(durations, 20, 19),
                  duration_p99 |-> Quantile(durations, 100, 99)]
            ELSE EmptyDict)
        @@ (IF user_times # <<>>
            THEN [user_time_mean |-> Mean(user_times),
                  user_time_median |-> Median(user_times),
                  user_time_stdev |-> StdevOrZero(user_times)]
            ELSE EmptyDict)
        @@ (IF memory_usage # <<>>
            THEN [memory_mean_kb |-> Mean(memory_usage),
                  memory_median_kb |-> Median(memory_usage),
                  memory_max_kb |-> Max(memory_usage),
                  memory_min_kb |-> Min(memory_usage)]
            ELSE EmptyDict)

\* the loop `for impl_name, impl_results in test_results.items()`
RECURSIVE TestStats(_, _)
TestStats(test_stats, test_results) ==
    IF test_results = <<>> THEN test_stats
    ELSE LET impl_name == Head(test_results)[1]
             impl_results_ == Head(test_results)[2]
         IN  TestStats(IF impl_results_ = <<>>
                          \/ FieldValues(impl_results_, "duration") = <<>>
                       THEN test_stats
                       ELSE OrdSet(test_stats, impl_name, ImplStats(impl_results_)),
                       Tail(test_results))

\* the loop `for test_name, test_results in organized_results.items()`
RECURSIVE StatisticsFrom(_, _)
StatisticsFrom(stats, organized) ==
    IF organized = <<>> THEN stats
    ELSE StatisticsFrom(OrdSet(stats, Head(organized)[1],
                               TestStats(<<>>, Head(organized)[2])),
                        Tail(organized))

generate_statistics(organized) == StatisticsFrom(<<>>, organized)

\* float('inf')
Inf == <<1, 0>>

\* sorted(items, key=...) on <<key, item>> pairs with fraction keys; the sort is stable
RECURSIVE InsertByKey(_, _)
InsertByKey(x, s) ==
    IF s = <<>> THEN <<x>>
    ELSE IF ~FracLess(Head(s)[1], x[1]) THEN <<x>> \o s
    ELSE <<Head(s)>> \o InsertByKey(x, Tail(s))

RECURSIVE SortedByKey(_)
SortedByKey(s) == IF s = <<>> THEN <<>> ELSE InsertByKey(Head(s), SortedByKey(Tail(s)))

\* the baseline of one test: the one carried by the loop, or the first implementation
\* of the test when the test has no statistics of that one
BaselineOfTest(baseline_impl, test_stats) ==
    IF ~OrdHas(test_stats, baseline_impl)
    THEN IF test_stats # <<>> THEN test_stats[1][1] ELSE None
    ELSE baseline_impl

\* test_comparisons[impl_name] of one implementation
ImplComparison(impl_stats, baseline_time) ==
    LET impl_time == impl_stats.duration_mean
    IN  [relative_performance |-> IF baseline_time[1] > 0
                                  THEN FracDiv(impl_time, baseline_time) ELSE Inf,
         speedup_factor |-> IF impl_time[1] > 0 THEN FracDiv(baseline_time, impl_time)
                                                ELSE <<0, 1>>,
         absolute_time |-> impl_time,
         memory_usage_kb |-> DictGet(impl_stats, "memory_mean_kb", <<0, 1>>)]

\* rankings of one test: sorted by time, ranked from 1
Rankings(test_stats, baseline_time) ==
    LET keyed == [i \in 1..Len(test_stats) |->
                     <<test_stats[i][2].duration_mean,
                       [implementation |-> test_stats[i][1],
                        time |-> test_stats[i][2].duration_mean,
                        relative_performance |->
                            ImplComparison(test_stats[i][2], baseline_time)
                                .relative_performance]>>]
        sorted == SortedByKey(keyed)
    IN  [i \in 1..Len(sorted) |-> sorted[i][2] @@ [rank |-> i]]

\* the body of `for test_name, test_stats in stats_results.items()`; acc carries
\* baseline_impl and the two dicts being filled
CompareTest(acc, test_name, test_stats) ==
    LET baseline_impl == BaselineOfTest(acc.baseline_impl, test_stats)
    IN  IF baseline_impl = None \/ ~OrdHas(test_stats, baseline_impl)
        THEN [acc EXCEPT !.baseline_impl = baseline_impl]
        ELSE LET baseline_time == OrdGet(test_stats, baseline_impl).duration_mean
                 test_comparisons ==
                     [i \in 1..Len(test_stats) |->
                         <<test_stats[i][1],
                           ImplComparison(test_stats[i][2], baseline_time)>>]
             IN  [baseline_impl |-> baseline_impl,
                  relative_performance |->
                      OrdSet(acc.relative_performance, test_name, test_comparisons),
                  rankings |-> OrdSet(acc.rankings, test_name,
                                      Rankings(test_stats, baseline_time))]

RECURSIVE ComparisonsFrom(_, _)
ComparisonsFrom(acc, stats) ==
    IF stats = <<>> THEN acc
    ELSE ComparisonsFrom(CompareTest(acc, Head(stats)[1], Head(stats)[2]), Tail(stats))

\* impl_scores: the ranks of every implementation, in order of first appearance
RECURSIVE ScoresOfTest(_, _)
ScoresOfTest(impl_scores, test_rankings) ==
    IF test_rankings = <<>> THEN impl_scores
    ELSE LET impl_name == Head(test_rankings).implementation
             scores == IF OrdHas(impl_scores, impl_name) THEN OrdGet(impl_scores, impl_name)
                                                         ELSE <<>>
         IN  ScoresOfTest(OrdSet(impl_scores, impl_name,
                                 Append(scores, Head(test_rankings).rank)),
                          Tail(test_rankings))

RECURSIVE ImplScores(_, _)
ImplScores(impl_scores, rankings) ==
    IF rankings = <<>> THEN impl_scores
    ELSE ImplScores(ScoresOfTest(impl_scores, Head(rankings)[2]), Tail(rankings))

Wins(scores) == Len(SelectSeq(scores, LAMBDA rank : rank = 1))

generate_overall_summary(rankings) ==
    LET impl_scores == ImplScores(<<>>, rankings)
        summary == [i \in 1..Len(impl_scores) |->
                       <<impl_scores[i][1],
                         [average_rank |-> Mean(impl_scores[i][2]),
                          median_rank |-> Median(impl_scores[i][2]),
                          total_wins |-> Wins(impl_scores[i][2]),
                          total_tests |-> Len(impl_scores[i][2]),
                          win_percentage |-> <<Wins(impl_scores[i][2]) * 100,
                                               Len(impl_scores[i][2])>>]>>]
        overall == SortedByKey([i \in 1..Len(summary) |->
                                   <<summary[i][2].average_rank, summary[i]>>])
    IN  [individual_stats |-> summary,
         overall_rankings |->
             [i \in 1..Len(overall) |->
                 [implementation |-> overall[i][2][1],
                  average_rank |-> overall[i][2][2].average_rank,
                  win_percentage |-> overall[i][2][2].win_percentage]]]

\* self.output_config.get('comparisons', {}).get('baseline', 'chez')
ConfiguredBaseline(output) ==
    DictGet(DictGet(output, "comparisons", EmptyDict), "baseline", "chez")

generate_comparisons(output, stats) ==
    LET acc == ComparisonsFrom([baseline_impl |-> ConfiguredBaseline(output),
                                relative_performance |-> <<>>, rankings |-> <<>>],
                               stats)
    IN  [relative_performance |-> acc.relative_performance,
         rankings |-> acc.rankings,
         summary |-> generate_overall_summary(acc.rankings)]

(* process_all_results called on raw results of its own *)

ProcTests == {"fib", "sort"}
ProcImpls == {"chez", "guile"}
Durations == 1..MaxDuration

\* a loaded raw result: a successful one with its duration, or a failed one
RawResults ==
    [test : ProcTests, implementation : ProcImpls, success : {TRUE}, duration : Durations]
        \cup [test : ProcTests, implementation : ProcImpls, success : {FALSE}]

\* the successful results of one test on one implementation
RepeatedResults == { r \in RawResults : r.test = "fib" /\ r.implementation = "chez" /\ r.success }

OutputConfigs ==
    { EmptyDict, DictSet(EmptyDict, "comparisons", DictSet(EmptyDict, "baseline", "guile")) }

ProcessIdle ==
    /\ output_config = EmptyDict
    /\ raw_results = <<>>
    /\ proc_pc = "off"
    /\ organized_results = NoResult
    /\ stats_results = NoResult
    /\ comparison_results = NoResult

\* `if not raw_results: return`
NoRawResults ==
    /\ proc_pc = "load"
    /\ raw_results = <<>>
    /\ proc_pc' = "done"
    /\ UNCHANGED <<output_config, raw_results, organized_results, stats_results,
                   comparison_results>>
    /\ UNCHANGED <<expandVars, runnerVars, monitorVars, analysisVars>>

OrganizeResults ==
    /\ proc_pc = "load"
    /\ raw_results # <<>>
    /\ organized_results' = organize_results(raw_results)
    /\ proc_pc' = "statistics"
    /\ UNCHANGED <<output_config, raw_results, stats_results, comparison_results>>
    /\ UNCHANGED <<expandVars, runnerVars, monitorVars, analysisVars>>

GenerateStatistics ==
    /\ proc_pc = "statistics"
    /\ stats_results' = generate_statistics(organized_results)
    /\ proc_pc' = "comparisons"
    /\ UNCHANGED <<output_config, raw_results, organized_results, comparison_results>>
    /\ UNCHANGED <<expandVars, runnerVars, monitorVars, analysisVars>>

GenerateComparisons ==
    /\ proc_pc = "comparisons"
    /\ comparison_results' = generate_comparisons(output_config, stats_results)
    /\ proc_pc' = "save"
    /\ UNCHANGED <<output_config, raw_results, organized_results, stats_results>>
    /\ UNCHANGED <<expandVars, runnerVars, monitorVars, analysisVars>>

-----------------------------------------------------------------------------
(* PerformanceMonitor *)

JoinTimeout == 1            \* self._monitor_thread.join(timeout=1.0), in seconds
NoThread == 0               \* self._monitor_thread = None
Threads == 1..MaxThreads
Pids == {101}

\* str(pid)
PidStr(pid) == CASE pid = 101 -> "101" [] OTHER -> "?"

\* asdict(m) of a SystemMetrics / ProcessMetrics sample: the fields kept by the model
AsDict(m) == m

\* the dict stop_monitoring builds from the two histories
Snapshot ==
    [system_metrics |-> [i \in 1..Len(metrics_history) |-> AsDict(metrics_history[i])],
     process_metrics |->
        [k \in { PidStr(pid) : pid \in DOMAIN process_history } |->
            LET pid == CHOOSE q \in DOMAIN process_history : PidStr(q) = k
            IN  [i \in 1..Len(process_history[pid]) |-> AsDict(process_history[pid][i])]]]

EmptySnapshot == [system_metrics |-> <<>>, process_metrics |-> EmptyDict]

MonitorIdle ==
    /\ sampling_interval = 0
    /\ monitoring = FALSE
    /\ metrics_history = <<>>
    /\ process_history = EmptyDict
    /\ monitor_thread = NoThread
    /\ target_processes = {}
    /\ thread_pc = [t \in Threads |-> "unborn"]
    /\ thread_sample = [t \in Threads |-> 0]
    /\ thread_wake = [t \in Threads |-> 0]
    /\ now = 0
    /\ live = Pids
    /\ call_pc = "idle"
    /\ join_deadline = 0
    /\ stop_ret = EmptySnapshot
    /\ stop_inactive = FALSE
    /\ last_call = "none"
    /\ starts = 0

\* add_target_process
AddTargetProcess(pid) ==
    /\ call_pc = "idle"
    /\ pid \notin target_processes
    /\ target_processes' = target_processes \cup {pid}
    /\ UNCHANGED <<sampling_interval, monitoring, metrics_history, process_history,
                   monitor_thread, thread_pc, thread_sample, thread_wake, now, live,
                   call_pc, join_deadline, stop_ret, stop_inactive, last_call, starts>>
    /\ UNCHANGED <<expandVars, runnerVars, analysisVars, processVars>>

\* remove_target_process
RemoveTargetProcess(pid) ==
    /\ call_pc = "idle"
    /\ pid \in target_processes
    /\ target_processes' = target_processes \ {pid}
    /\ UNCHANGED <<sampling_interval, monitoring, metrics_history, process_history,
                   monitor_thread, thread_pc, thread_sample, thread_wake, now, live,
                   call_pc, join_deadline, stop_ret, stop_inactive, last_call, starts>>
    /\ UNCHANGED <<expandVars, runnerVars, analysisVars, processVars>>

\* start_monitoring: nothing when already monitoring, else the flag is set, both
\* histories are cleared and a new thread is started and remembered
StartMonitoring ==
    /\ call_pc = "idle"
    /\ last_call' = "start"
    /\ IF monitoring
       THEN UNCHANGED <<monitoring, metrics_history, process_history, monitor_thread,
                        thread_pc, starts>>
       ELSE /\ starts < MaxThreads
            /\ monitoring' = TRUE
            /\ metrics_history' = <<>>
            /\ process_history' = EmptyDict
            /\ starts' = starts + 1
            /\ monitor_thread' = starts + 1
            /\ thread_pc' = [thread_pc EXCEPT ![starts + 1] = "loop"]
    /\ UNCHANGED <<sampling_interval, target_processes, thread_sample, thread_wake, now,
                   live, call_pc, join_deadline, stop_ret, stop_inactive>>
    /\ UNCHANGED <<expandVars, runnerVars, analysisVars, processVars>>

\* stop_monitoring up to the join: the flag is cleared; without a thread the result is
\* returned at once
StopMonitoring ==
    /\ call_pc = "idle"
    /\ monitoring' = FALSE
    /\ stop_inactive' = ~monitoring
    /\ last_call' = "stop"
    /\ IF monitor_thread = NoThread
       THEN /\ stop_ret' = Snapshot
            /\ UNCHANGED <<call_pc, join_deadline>>
       ELSE /\ call_pc' = "joining"
            /\ join_deadline' = now + JoinTimeout
            /\ UNCHANGED stop_ret
    /\ UNCHANGED <<sampling_interval, metrics_history, process_history, monitor_thread,
                   target_processes, thread_pc, thread_sample, thread_wake, now, live,
                   starts>>
    /\ UNCHANGED <<expandVars, runnerVars, analysisVars, processVars>>

\* faulty variant: stop_monitoring hands the samples over and resets the histories
ReturnFromStop_ClearsHistory ==
    /\ stop_ret' = Snapshot
    /\ call_pc' = "idle"
    /\ join_deadline' = 0
    /\ metrics_history' = <<>>
    /\ process_history' = EmptyDict
    /\ UNCHANGED <<sampling_interval, monitoring, monitor_thread, target_processes,
                   thread_pc, thread_sample, thread_wake, now, live, stop_inactive,
                   last_call, starts>>
    /\ UNCHANGED <<expandVars, runnerVars, analysisVars, processVars>>

\* stop_monitoring after the join: the result is built from the histories as they are
ReturnFromStop ==
    /\ stop_ret' = Snapshot
    /\ call_pc' = "idle"
    /\ join_deadline' = 0
    /\ UNCHANGED <<sampling_interval, monitoring, metrics_history, process_history,
                   monitor_thread, target_processes, thread_pc, thread_sample,
                   thread_wake, now, live, stop_inactive, last_call, starts>>
    /\ UNCHANGED <<expandVars, runnerVars, analysisVars, processVars>>

\* join(timeout=1.0) returns because the thread has terminated
JoinReturns ==
    /\ call_pc = "joining"
    /\ thread_pc[monitor_thread] = "done"
    /\ ReturnFromStop

\* join(timeout=1.0) returns because the timeout has elapsed, the thread still alive
JoinTimesOut ==
    /\ call_pc = "joining"
    /\ thread_pc[monitor_thread] # "done"
    /\ now >= join_deadline
    /\ ReturnFromStop

\* _monitor_loop: `while self.monitoring`
LoopCheck(t) ==
    /\ thread_pc[t] = "loop"
    /\ monitoring => Len(metrics_history) < MaxSamples
    /\ thread_pc' = [thread_pc EXCEPT ![t] = IF monitoring THEN "collect" ELSE "done"]
    /\ UNCHANGED <<sampling_interval, monitoring, metrics_history, process_history,
                   monitor_thread, target_processes, thread_sample, thread_wake, now,
                   live, call_pc, join_deadline, stop_ret, stop_inactive, last_call,
                   starts>>
    /\ UNCHANGED <<expandVars, runnerVars, analysisVars, processVars>>

\* _collect_system_metrics: the sample is stamped with time.time(); a psutil call that
\* raises is caught by `except Exception` of the loop
CollectSystemMetrics(t) ==
    /\ thread_pc[t] = "collect"
    /\ \/ /\ thread_sample' = [thread_sample EXCEPT ![t] = now]
          /\ thread_pc' = [thread_pc EXCEPT ![t] = "append"]
       \/ /\ thread_pc' = [thread_pc EXCEPT ![t] = "except"]
          /\ UNCHANGED thread_sample
    /\ UNCHANGED <<sampling_interval, monitoring, metrics_history, process_history,
                   monitor_thread, target_processes, thread_wake, now, live, call_pc,
                   join_deadline, stop_ret, stop_inactive, last_call, starts>>
    /\ UNCHANGED <<expandVars, runnerVars, analysisVars, processVars>>

\* faulty variant: the exception ends the sampling thread
HandleException_Terminates(t) ==
    /\ thread_pc[t] = "except"
    /\ thread_pc' = [thread_pc EXCEPT ![t] = "done"]
    /\ UNCHANGED <<sampling_interval, monitoring, metrics_history, process_history,
                   monitor_thread, target_processes, thread_sample, thread_wake, now,
                   live, call_pc, join_deadline, stop_ret, stop_inactive, last_call,
                   starts>>
    /\ UNCHANGED <<expandVars, runnerVars, analysisVars, processVars>>

\* `except Exception as e`: the error is printed and the loop continues at its head,
\* without sleeping
HandleException(t) ==
    /\ thread_pc[t] = "except"
    /\ thread_pc' = [thread_pc EXCEPT ![t] = "loop"]
    /\ UNCHANGED <<sampling_interval, monitoring, metrics_history, process_history,
                   monitor_thread, target_processes, thread_sample, thread_wake, now,
                   live, call_pc, join_deadline, stop_ret, stop_inactive, last_call,
                   starts>>
    /\ UNCHANGED <<expandVars, runnerVars, analysisVars, processVars>>

\* self.metrics_history.append(system_metrics)
AppendSystemMetrics(t) ==
    /\ thread_pc[t] = "append"
    /\ metrics_history' = Append(metrics_history, [timestamp |-> thread_sample[t]])
    /\ thread_pc' = [thread_pc EXCEPT ![t] = "processes"]
    /\ thread_sample' = [thread_sample EXCEPT ![t] = 0]
    /\ UNCHANGED <<sampling_interval, monitoring, process_history, monitor_thread,
                   target_processes, thread_wake, now, live, call_pc,
                   join_deadline, stop_ret, stop_inactive, last_call, starts>>
    /\ UNCHANGED <<expandVars, runnerVars, analysisVars, processVars>>

\* _collect_process_metrics(pid): None for a process that is gone (the psutil error is
\* caught inside), else its sample
CollectProcessMetrics(pid) ==
    IF pid \in live THEN [pid |-> pid, status |-> "running"] ELSE NoResult

\* the history after `for pid in list(self._target_processes)` has handled the pids
\* of todo
RECURSIVE SampleProcesses(_, _)
SampleProcesses(history, todo) ==
    IF todo = {} THEN history
    ELSE LET pid == CHOOSE p \in todo : TRUE
             m == CollectProcessMetrics(pid)
             next == IF m = NoResult THEN history
                     ELSE DictSet(history, pid, Append(DictGet(history, pid, <<>>), m))
         IN  SampleProcesses(next, todo \ {pid})

\* the per-process part of one tick, then time.sleep(self.sampling_interval) begins
SampleProcessesAndSleep(t) ==
    /\ thread_pc[t] = "processes"
    /\ process_history' = SampleProcesses(process_history, target_processes)
    /\ thread_wake' = [thread_wake EXCEPT ![t] = now + sampling_interval]
    /\ thread_pc' = [thread_pc EXCEPT ![t] = "sleep"]
    /\ UNCHANGED <<sampling_interval, monitoring, metrics_history, monitor_thread,
                   target_processes, thread_sample, now, live, call_pc, join_deadline,
                   stop_ret, stop_inactive, last_call, starts>>
    /\ UNCHANGED <<expandVars, runnerVars, analysisVars, processVars>>

\* time.sleep returns
WakeUp(t) ==
    /\ thread_pc[t] = "sleep"
    /\ now >= thread_wake[t]
    /\ thread_pc' = [thread_pc EXCEPT ![t] = "loop"]
    /\ thread_wake' = [thread_wake EXCEPT ![t] = 0]
    /\ UNCHANGED <<sampling_interval, monitoring, metrics_history, process_history,
                   monitor_thread, target_processes, thread_sample, now,
                   live, call_pc, join_deadline, stop_ret, stop_inactive, last_call,
                   starts>>
    /\ UNCHANGED <<expandVars, runnerVars, analysisVars, processVars>>

\* a monitored process exits
ProcessExits(pid) ==
    /\ pid \in live
    /\ live' = live \ {pid}
    /\ UNCHANGED <<sampling_interval, monitoring, metrics_history, process_history,
                   monitor_thread, target_processes, thread_pc, thread_sample,
                   thread_wake, now, call_pc, join_deadline, stop_ret, stop_inactive,
                   last_call, starts>>
    /\ UNCHANGED <<expandVars, runnerVars, analysisVars, processVars>>

\* one second passes
Tick ==
    /\ now < MaxTime
    /\ now' = now + 1
    /\ UNCHANGED <<sampling_interval, monitoring, metrics_history, process_history,
                   monitor_thread, target_processes, thread_pc, thread_sample,
                   thread_wake, live, call_pc, join_deadline, stop_ret, stop_inactive,
                   last_call, starts>>
    /\ UNCHANGED <<expandVars, runnerVars, analysisVars, processVars>>

-----------------------------------------------------------------------------
(* Specifications *)

\* the runner: run() from the start of the native sweep
RunnerInit ==
    /\ ProcessIdle
    /\ ExpandIdle
    /\ MonitorIdle
    /\ AnalysisIdle
    /\ run_pc = "load"
    /\ \/ \* no configuration to load
          /\ config_file \in {"missing", "malformed"}
          /\ config = [implementations |-> <<>>, test_categories |-> <<>>,
                       iterations |-> 0, warmup |-> 0]
          /\ args \in {DefaultArgs, ReportArgs}
          /\ baseline_file = NoFile
          /\ available = AllImplIds
          /\ docker_output = FALSE
       \/ \* the sweeps, in an environment where everything is in place
          /\ config_file = "ok"
          /\ config \in Configs
          /\ args = DefaultArgs
          /\ baseline_file = NoFile
          /\ available = AllImplIds
          /\ docker_output = FALSE
       \/ \* two native implementations with one test, in every environment
          /\ config_file = "ok"
          /\ config \in PipelineConfigs
          /\ \/ args \in {DefaultArgs, ReportArgs} /\ baseline_file = NoFile
             \/ args = BaselineArgs /\ baseline_file \in {NoFile, RunnerBaseline}
          /\ available \in Availabilities
          /\ docker_output \in BOOLEAN
    /\ invoked = {}
    /\ report = NoResult
    /\ impl_i = 1
    /\ results = EmptyDict
    /\ job_i = 1
    /\ impl_results = <<>>
    /\ rst_pc = "idle"
    /\ temp_files = {}
    /\ files_created = 0
    /\ warm_i = 0
    /\ timing_results = <<>>
    /\ error = Unbound
    /\ broke = FALSE
    /\ timed_log = <<>>
    /\ result = NoResult
    /\ all_results = EmptyDict
    /\ raised = "none"
    /\ collected = {}

RunnerNext ==
    \/ SkipLambdust
    \/ CreateTempFile
    \/ WarmupRun
    \/ TimedRun
    \/ FinishTest
    \/ AppendResult
    \/ FinishImplementation
    \/ ReturnNative
    \/ LoadConfiguration
    \/ CheckSystemRequirements
    \/ BuildLambdust
    \/ RunDockerBenchmarks
    \/ PerformStatisticalAnalysis
    \/ DetectRegressions
    \/ GenerateReport

SpecRunner == RunnerInit /\ [][RunnerNext]_vars

\* the expander alone, on every schema within the bounds
ExpandInit ==
    /\ ProcessIdle
    /\ RunnerIdle
    /\ MonitorIdle
    /\ AnalysisIdle
    /\ parameters \in Schemas
    /\ combinations = <<>>
    /\ combinations2 = <<>>
    /\ calls = 0

ExpandNext == Expand \/ ExpandAgain

SpecExpand == ExpandInit /\ [][ExpandNext]_vars

\* one PerformanceMonitor, its caller, its sampling threads and the clock
MonitorInit ==
    /\ ProcessIdle
    /\ ExpandIdle
    /\ AnalysisIdle
    /\ RunnerIdle
    /\ sampling_interval \in 0..MaxInterval
    /\ monitoring = FALSE
    /\ metrics_history = <<>>
    /\ process_history = EmptyDict
    /\ monitor_thread = NoThread
    /\ target_processes = {}
    /\ thread_pc = [t \in Threads |-> "unborn"]
    /\ thread_sample = [t \in Threads |-> 0]
    /\ thread_wake = [t \in Threads |-> 0]
    /\ now = 0
    /\ live = Pids
    /\ call_pc = "idle"
    /\ join_deadline = 0
    /\ stop_ret = EmptySnapshot
    /\ stop_inactive = FALSE
    /\ last_call = "none"
    /\ starts = 0

MonitorNext ==
    \/ \E pid \in Pids : AddTargetProcess(pid)
    \/ \E pid \in Pids : RemoveTargetProcess(pid)
    \/ StartMonitoring
    \/ StopMonitoring
    \/ JoinReturns
    \/ JoinTimesOut
    \/ \E t \in Threads : LoopCheck(t)
    \/ \E t \in Threads : CollectSystemMetrics(t)
    \/ \E t \in Threads : HandleException(t)
    \/ \E t \in Threads : AppendSystemMetrics(t)
    \/ \E t \in Threads : SampleProcessesAndSleep(t)
    \/ \E t \in Threads : WakeUp(t)
    \/ \E pid \in Pids : ProcessExits(pid)
    \/ Tick

SpecMonitor == MonitorInit /\ [][MonitorNext]_vars

\* compare_implementations alone, on every pair of samples within the bounds
CompareInit ==
    /\ ProcessIdle
    /\ ExpandIdle
    /\ RunnerIdle
    /\ MonitorIdle
    /\ data_a \in Samples
    /\ data_b \in Samples
    /\ comparison = NoResult
    /\ native_items = <<>>
    /\ statistical_results = NoResult
    /\ DetectIdle

CompareNext == Compare

SpecCompare == CompareInit /\ [][CompareNext]_vars

\* perform_statistical_analysis alone, on the results of every sweep within the bounds
StatsInit ==
    /\ ProcessIdle
    /\ ExpandIdle
    /\ RunnerIdle
    /\ MonitorIdle
    /\ data_a = <<>>
    /\ data_b = <<>>
    /\ comparison = NoResult
    /\ \E n \in 1..MaxStatImpls, jobs \in StatJobLists :
          \E samples \in [1..n -> [1..Len(jobs) -> StatSamples]] :
              native_items = StatItemsOf(n, jobs, samples)
    /\ statistical_results = NoResult
    /\ DetectIdle

StatsNext == Analyze

SpecStats == StatsInit /\ [][StatsNext]_vars

\* detect_regressions alone, on every pair of current results and baseline within the
\* bounds; the baseline has entries for one implementation or is empty
DetectInit ==
    /\ ProcessIdle
    /\ ExpandIdle
    /\ RunnerIdle
    /\ MonitorIdle
    /\ data_a = <<>>
    /\ data_b = <<>>
    /\ comparison = NoResult
    /\ native_items = <<>>
    /\ statistical_results = NoResult
    /\ \E n \in 1..MaxDetectImpls, jobs \in DetectJobLists :
          \E ops \in [1..n -> [1..Len(jobs) -> CurrentOps]] :
              current_items = CurrentItemsOf(n, jobs, ops)
    /\ \/ baseline_results = EmptyDict
       \/ \E i \in 1..2, l \in BaselineLists :
             baseline_results = BaselineOf(DetectImplIds[i], l)
    /\ regression_results = NoResult

DetectNext == Detect

SpecDetect == DetectInit /\ [][DetectNext]_vars

\* process_all_results alone, on every list of raw results within the bounds
ProcessInit ==
    /\ ExpandIdle
    /\ RunnerIdle
    /\ MonitorIdle
    /\ AnalysisIdle
    /\ output_config \in OutputConfigs
    /\ \/ raw_results \in SeqsUpTo(RawResults, MaxRaw)
       \/ \E k \in 1..MaxRepeat : raw_results \in [1..k -> RepeatedResults]
    /\ proc_pc = "load"
    /\ organized_results = NoResult
    /\ stats_results = NoResult
    /\ comparison_results = NoResult

ProcessNext == NoRawResults \/ OrganizeResults \/ GenerateStatistics \/ GenerateComparisons

SpecProcess == ProcessInit /\ [][ProcessNext]_vars

\* the three consumers of result records, each on inputs of its own
ConsumersInit == StatsInit \/ DetectInit \/ ProcessInit

ConsumersNext ==
    \/ Analyze
    \/ Detect
    \/ NoRawResults
    \/ OrganizeResults
    \/ GenerateStatistics
    \/ GenerateComparisons

SpecConsumers == ConsumersInit /\ [][ConsumersNext]_vars

-----------------------------------------------------------------------------
(* Helpers of the properties *)

\* the elapsed times of the invocations of a log that exited 0, in execution order
RECURSIVE SuccessfulElapsed(_)
SuccessfulElapsed(log) ==
    IF log = <<>> THEN <<>>
    ELSE IF Head(log).kind = "exit0"
         THEN <<Head(log).elapsed>> \o SuccessfulElapsed(Tail(log))
         ELSE SuccessfulElapsed(Tail(log))

NativeImplIds ==
    { config.implementations[i].id : i \in
        { j \in 1..Len(config.implementations) : config.implementations[j].id # "lambdust" } }

\* a timed invocation failed after at least one earlier timed invocation succeeded
FailedMidRun == rst_pc = "returned" /\ broke /\ timing_results # <<>>

\* no timed invocation succeeded, with at least one configured
NoneSucceeded == rst_pc = "returned" /\ config.iterations >= 1 /\ timing_results = <<>>

-----------------------------------------------------------------------------
(* Properties of the runner *)

\* C1: whenever run_single_test is not executing (it returned, or an exception left
\* it), the temporary source file it created is gone; at most one exists at any time.
C1_TempFileRemoved ==
    /\ Cardinality(temp_files) <= 1
    /\ (rst_pc # "running" => temp_files = {})

\* C2: an invocation-level failure (spawn error, nonzero exit, timeout, temp-file I/O
\* error) never aborts the sweep: when the native sweep is over, every native
\* implementation has one record per (category, test, combination).
C2_SweepNeverAborted ==
    (run_pc = "analysis" /\ config.iterations >= 1) =>
        /\ raised = "none"
        /\ "native_results" \in DOMAIN all_results
        /\ \A id \in NativeImplIds :
              /\ id \in DOMAIN all_results["native_results"]
              /\ Len(all_results["native_results"][id]) = Len(Jobs)

\* C3: every record collected before the sweep ended, by an error or not, is in the
\* structure run() passes on to statistics, regression detection and reporting.
C3_CollectedResultsKept ==
    run_pc = "analysis" =>
        \A x \in collected :
            /\ "native_results" \in DOMAIN all_results
            /\ x.impl \in DOMAIN all_results["native_results"]
            /\ x.index <= Len(all_results["native_results"][x.impl])
            /\ all_results["native_results"][x.impl][x.index] = x.rec

\* C7 as stated: a timed iteration failing after earlier successes marks the record
\* failed (success = false), keeps the timings and ends the iterations.
C7_FailedMidRunMarkedFailed ==
    FailedMidRun =>
        /\ result.success = FALSE
        /\ result.timing_results = timing_results
        /\ Len(timed_log) = Len(timing_results) + 1

\* C7 amended: a timed iteration failing after earlier successes ends the iterations
\* (the failed invocation is the last one executed), and the record keeps the timings
\* collected before the failure and is marked success = true.
C7_FailedMidRunKeepsTimings ==
    /\ broke => /\ Len(timed_log) = Len(timing_results) + 1
                /\ timed_log[Len(timed_log)].kind # "exit0"
    /\ FailedMidRun =>
          /\ result.success = TRUE
          /\ result.timing_results = SuccessfulElapsed(timed_log)
          /\ Len(result.timing_results) = Len(timed_log) - 1

C7_Witness ==
    /\ FailedMidRun
    /\ timed_log[Len(timed_log)].kind = "timeout"
    /\ Len(timed_log) < config.iterations

\* C8: with at least one successful timed iteration the record has success = true, its
\* timings are the elapsed times of the successful iterations in execution order, and
\* ops_per_second * mean(timings) = 1 when the mean is positive.
C8_SuccessRecord ==
    (rst_pc = "returned" /\ SuccessfulElapsed(timed_log) # <<>>) =>
        LET t == SuccessfulElapsed(timed_log)
        IN  /\ result.success = TRUE
            /\ result.timing_results = t
            /\ result.iterations = Len(t)
            /\ SeqSum(t) > 0 =>
                  result.ops_per_second[1] * SeqSum(t) = result.ops_per_second[2] * Len(t)

C8_Witness ==
    /\ rst_pc = "returned"
    /\ result.success = TRUE
    /\ result.timing_results = <<1, 0>>
    /\ result.ops_per_second = <<2, 1>>

\* C9 as stated: with no successful timed iteration the record has success = false, no
\* timings, and as error the error text of the failing invocation.
C9_ErrorFromInvocation ==
    NoneSucceeded =>
        /\ result.success = FALSE
        /\ result.timing_results = <<>>
        /\ result.error = execute_test_file(timed_log[1]).error

\* C9 amended: with no successful timed iteration the record has success = false, no
\* timings, and as error the error text of the failing invocation when that text is
\* not empty, else the fixed text 'Test execution failed'; a timeout gives
\* 'Test timed out'.
C9_ErrorFromInvocationOrDefault ==
    NoneSucceeded =>
        /\ result.success = FALSE
        /\ result.timing_results = <<>>
        /\ Len(timed_log) = 1
        /\ LET e == execute_test_file(timed_log[1]).error
           IN  /\ e # "" => result.error = e
               /\ e = "" => result.error = "Test execution failed"
        /\ timed_log[1].kind = "timeout" => result.error = "Test timed out"

C9_Witness ==
    /\ NoneSucceeded
    /\ config.warmup >= 1
    /\ timed_log[1].kind = "timeout"
    /\ result.error = "Test timed out"

\* a regression baseline is configured and the file is missing or unreadable
BaselineUnreadable == args.regression_baseline # None /\ ~baseline_file.readable

\* C15: with a regression baseline configured whose file is missing or unreadable,
\* detect_regressions raises nothing and run() adds no regression section; the native
\* results and the statistical analysis collected so far go unchanged through the
\* regression and report steps, and a report that is written holds exactly them.
C15_UnreadableBaselineOnlySkipsRegression ==
    /\ [](BaselineUnreadable =>
            /\ "regression_analysis" \notin DOMAIN all_results
            /\ report # NoResult => report = all_results)
    /\ [][(BaselineUnreadable /\ run_pc \in {"regression", "report"}) =>
            /\ all_results' = all_results
            /\ run_pc' = IF run_pc = "regression" THEN "report" ELSE "done"]_vars

C15_Witness ==
    /\ BaselineUnreadable
    /\ run_pc = "done"
    /\ report # NoResult
    /\ "native_results" \in DOMAIN report
    /\ "statistical_analysis" \in DOMAIN report
    /\ Len(report["statistical_analysis"].pairwise_comparisons) = 1

\* C16 as stated: when the configuration file or the configured baseline file is
\* missing or malformed, no test invocation (warmup or timed) is ever executed.
C16_ConfigErrorAbortsBeforeExecution ==
    (config_file # "ok" \/ BaselineUnreadable) => invoked = {}

\* C16 amended: when the configuration file is missing or malformed the run ends in
\* sys.exit(1) straight from loading, and whenever the run ends in sys.exit(1) no test
\* invocation has been executed (a missing or malformed baseline file is not among
\* the causes: it is read after the sweep).
C16_ConfigFileErrorAbortsBeforeExecution ==
    /\ config_file # "ok" => (run_pc \in {"load", "exit"} /\ invoked = {})
    /\ run_pc = "exit" => (invoked = {} /\ all_results = EmptyDict)

C16_Witness ==
    /\ config_file = "malformed"
    /\ args.generate_report
    /\ run_pc = "exit"
    /\ invoked = {}

\* C17: an implementation the availability check finds unavailable is skipped: no test
\* invocation is executed for it and no record is collected for it.
C17_UnavailableSkipped ==
    \A id \in NativeImplIds \ AvailableImpls :
        /\ id \notin invoked
        /\ \A x \in collected : x.impl # id
        /\ "native_results" \in DOMAIN all_results =>
              id \notin DOMAIN all_results["native_results"]

-----------------------------------------------------------------------------
(* Properties of the parameter expander *)

ParamNamesOf(params) == { params[i].name : i \in 1..Len(params) }

\* k distinctly named parameters, each value of a supported type, the values of one
\* parameter pairwise distinct
WellFormedSchema(params) ==
    /\ \A i, j \in 1..Len(params) : params[i].name = params[j].name => i = j
    /\ \A i \in 1..Len(params) :
          /\ \A j \in 1..Len(params[i].values) : SupportedType(params[i].values[j].type)
          /\ \A j, l \in 1..Len(params[i].values) :
                params[i].values[j].value = params[i].values[l].value => j = l

RECURSIVE ValueCountProduct(_, _)
ValueCountProduct(params, i) ==
    IF i > Len(params) THEN 1
    ELSE Len(params[i].values) * ValueCountProduct(params, i + 1)

\* C10: on a well-formed schema the expander returns exactly the product of the value
\* counts (one empty combination for no parameter), pairwise distinct, each giving
\* every parameter one of its declared values; a second call returns the same list.
C10_CrossProduct ==
    (calls >= 1 /\ WellFormedSchema(parameters)) =>
        /\ Len(combinations) = ValueCountProduct(parameters, 1)
        /\ \A i, j \in 1..Len(combinations) : combinations[i] = combinations[j] => i = j
        /\ \A i \in 1..Len(combinations) :
              /\ DOMAIN combinations[i] = ParamNamesOf(parameters)
              /\ \A p \in 1..Len(parameters) :
                    \E j \in 1..Len(parameters[p].values) :
                        combinations[i][parameters[p].name] = parameters[p].values[j].value
        /\ calls = 2 => combinations2 = combinations

C10_Witness ==
    /\ calls = 2
    /\ WellFormedSchema(parameters)
    /\ Len(parameters) = 2
    /\ Len(combinations) = 4

\* position of value v in the declared values of a parameter
ValueIndex(param, v) ==
    CHOOSE j \in 1..Len(param.values) : param.values[j].value = v

\* combination c1 is before c2 in the lexicographic order whose most significant key
\* is the first declared parameter
LexBefore(params, c1, c2) ==
    \E p \in 1..Len(params) :
        /\ \A q \in 1..(p - 1) : c1[params[q].name] = c2[params[q].name]
        /\ ValueIndex(params[p], c1[params[p].name])
              < ValueIndex(params[p], c2[params[p].name])

\* C11: on a well-formed schema the returned list is in lexicographic order over the
\* declaration order, the first declared parameter being the most significant key and
\* the values of each parameter coming in their declared order.
C11_FirstParameterMostSignificant ==
    (calls >= 1 /\ WellFormedSchema(parameters)) =>
        \A i, j \in 1..Len(combinations) :
            i < j => LexBefore(parameters, combinations[i], combinations[j])

\* the schema without value entry j of parameter p
RemoveEntry(params, p, j) ==
    [params EXCEPT ![p].values =
        SubSeq(params[p].values, 1, j - 1)
            \o SubSeq(params[p].values, j + 1, Len(params[p].values))]

UnsupportedEntries(params) ==
    { e \in (1..Len(params)) \X (1..MaxValues + 1) :
        /\ e[2] <= Len(params[e[1]].values)
        /\ ~SupportedType(params[e[1]].values[e[2]].type) }

\* C12: a value entry whose type is not Integer, Float, String or Boolean is skipped on
\* its own: the call returns normally with the list it returns for the same schema
\* with that entry removed.
C12_UnsupportedEntrySkipped ==
    calls >= 1 =>
        \A e \in UnsupportedEntries(parameters) :
            combinations = generate_parameter_combinations(RemoveEntry(parameters, e[1], e[2]))

C12_Witness ==
    /\ calls >= 1
    /\ Len(parameters) = 2
    /\ UnsupportedEntries(parameters) # {}
    /\ Len(combinations) = 2

-----------------------------------------------------------------------------
(* Properties of the monitor *)

\* the last call was stop_monitoring and it has returned
StopReturned == last_call = "stop" /\ call_pc = "idle"

AllThreadsDone == \A t \in Threads : thread_pc[t] \in {"unborn", "done"}

\* C4: when stop_monitoring has returned, the sampling thread has terminated, and
\* until the next start the returned samples are all the samples of the history (none
\* is appended after the return).
C4_StopTerminatesSampler ==
    StopReturned =>
        /\ AllThreadsDone
        /\ stop_ret = Snapshot

\* C5 as stated: stop_monitoring called while no sampling is active returns empty
\* collections.
C5_InactiveStopReturnsEmpty ==
    (StopReturned /\ stop_inactive) => stop_ret = EmptySnapshot

\* C5 amended: stop_monitoring called while no sampling is active returns what the
\* histories hold when it returns: empty collections if start_monitoring was never
\* called, else the samples kept since the last start_monitoring (stop_monitoring does
\* not clear them).
C5_InactiveStopReturnsHistory ==
    /\ []((StopReturned /\ stop_inactive /\ starts = 0) => stop_ret = EmptySnapshot)
    /\ [][(call_pc = "joining" /\ call_pc' = "idle" /\ stop_inactive)
            => (stop_ret' = Snapshot' /\ Snapshot' = Snapshot)]_vars

C5_Witness ==
    /\ StopReturned
    /\ stop_inactive
    /\ AllThreadsDone
    /\ Len(stop_ret.system_metrics) = 1
    /\ "101" \in DOMAIN stop_ret.process_metrics

\* C6: the system samples returned by a stop_monitoring that follows a
\* start_monitoring are in non-decreasing timestamp order.
C6_TimestampsOrdered ==
    (StopReturned /\ ~stop_inactive) =>
        \A i, j \in 1..Len(stop_ret.system_metrics) :
            i < j => stop_ret.system_metrics[i].timestamp
                        <= stop_ret.system_metrics[j].timestamp

-----------------------------------------------------------------------------
(* Properties of compare_implementations *)

Compared == comparison # NoResult

\* C18: for non-empty inputs the winner is the implementation with the strictly lower
\* mean, and implementation A (the first argument) when the two means are equal.
C18_TieFavorsA ==
    (Compared /\ data_a # <<>> /\ data_b # <<>> /\ comparison # ZeroDivisionError) =>
        /\ FracLess(MeanTime(data_a), MeanTime(data_b)) => comparison.winner = "chibi"
        /\ FracLess(MeanTime(data_b), MeanTime(data_a)) => comparison.winner = "guile"
        /\ FracEq(MeanTime(data_a), MeanTime(data_b)) => comparison.winner = "chibi"

\* C19: for every non-empty sample A, a single timing included, comparing A with itself
\* completes without error with effect size 0 and significant = false; the effect size
\* is 0 whenever the pooled standard deviation is 0.
C19_SelfComparisonIsNull ==
    /\ (Compared /\ data_a # <<>> /\ data_a = data_b) =>
          /\ comparison # ZeroDivisionError
          /\ comparison.effect_size[1] = 0
          /\ comparison.significant = FALSE
    /\ (Compared /\ data_a # <<>> /\ data_b # <<>> /\ comparison # ZeroDivisionError
            /\ PooledVariance(data_a, data_b)[1] = 0) =>
          comparison.effect_size[1] = 0

-----------------------------------------------------------------------------
(* Properties of perform_statistical_analysis *)

Analyzed == statistical_results # NoResult

\* the implementations with a successful result for a test
SuccessfulImpls(items, test_key) ==
    { items[i][1] : i \in { k \in 1..Len(items) :
        \E j \in 1..Len(items[k][2]) :
            items[k][2][j].success /\ TestKey(items[k][2][j]) = test_key } }

ComparisonsOf(test_key, a, b) ==
    { i \in 1..Len(statistical_results.pairwise_comparisons) :
        LET c == statistical_results.pairwise_comparisons[i]
        IN  c.test = test_key /\ {c.impl_a, c.impl_b} = {a, b} }

\* C20: for each test the analysis produces exactly one comparison for every unordered
\* pair of distinct implementations with a successful result for that test, n(n-1)/2
\* comparisons for n such implementations, none of an implementation with itself and
\* never both (A, B) and (B, A).
C20_OneComparisonPerPair ==
    Analyzed =>
        /\ statistical_results # ZeroDivisionError
        /\ \A i \in 1..Len(statistical_results.pairwise_comparisons) :
              statistical_results.pairwise_comparisons[i].impl_a
                  # statistical_results.pairwise_comparisons[i].impl_b
        /\ \A i \in 1..Len(native_items), j \in 1..Len(native_items[1][2]) :
              LET test_key == TestKey(native_items[i][2][j])
                  impls == SuccessfulImpls(native_items, test_key)
                  n == Cardinality(impls)
              IN  /\ \A a, b \in impls :
                        a # b => Cardinality(ComparisonsOf(test_key, a, b)) = 1
                  /\ 2 * Cardinality({ k \in 1..Len(statistical_results.pairwise_comparisons) :
                          statistical_results.pairwise_comparisons[k].test = test_key })
                        = n * (n - 1)

-----------------------------------------------------------------------------
(* Properties of detect_regressions *)

Detected == regression_results # NoResult

\* the (current result, baseline entry) pairs equal in implementation id, test name,
\* category and parameters, the current result being a successful one and the
\* baseline ops_per_second positive: <<i, j, k>> is result j of implementation i with
\* entry k of that implementation in the baseline
MatchedPairs ==
    { p \in (1..Len(current_items)) \X (1..2) \X (1..MaxBaseline + 1) :
        /\ p[2] <= Len(current_items[p[1]][2])
        /\ current_items[p[1]][2][p[2]].success
        /\ current_items[p[1]][1] \in DOMAIN baseline_results
        /\ p[3] <= Len(baseline_results[current_items[p[1]][1]])
        /\ LET r == current_items[p[1]][2][p[2]]
               b == baseline_results[current_items[p[1]][1]][p[3]]
           IN  /\ b.test_name = r.test_name
               /\ b.category = r.category
               /\ b.parameters = r.parameters
               /\ b.ops_per_second[1] > 0 }

CurrentOf(p) == current_items[p[1]][2][p[2]]

BaselineEntryOf(p) == baseline_results[current_items[p[1]][1]][p[3]]

\* (current - baseline) / baseline * 100 as the fraction <<numerator, denominator>>,
\* the denominator positive
ChangeOf(p) ==
    LET c == CurrentOf(p).ops_per_second
        b == BaselineEntryOf(p).ops_per_second
    IN  <<100 * (c[1] * b[2] - b[1] * c[2]), c[2] * b[1]>>

IsRegression(p) == ChangeOf(p)[1] < (0 - 5) * ChangeOf(p)[2]

IsImprovement(p) == ChangeOf(p)[1] > 5 * ChangeOf(p)[2]

\* record x of one of the two lists is about pair p
RecordOf(x, p) ==
    /\ x.implementation = current_items[p[1]][1]
    /\ x.test = CurrentOf(p).test_name
    /\ x.category = CurrentOf(p).category
    /\ x.current_performance = CurrentOf(p).ops_per_second
    /\ x.baseline_performance = BaselineEntryOf(p).ops_per_second

\* C13: for every matched pair with baseline ops > 0 and change = (current - baseline)
\* / baseline * 100, there is exactly one regression record (degradation = |change|)
\* iff change < -5, exactly one improvement record iff change > +5, none for
\* -5 <= change <= +5; no result is in both lists.
C13_ThresholdsAtFivePercent ==
    Detected =>
        LET regs == regression_results.regressions
            imps == regression_results.improvements
        IN  /\ Len(regs) = Cardinality({ p \in MatchedPairs : IsRegression(p) })
            /\ Len(imps) = Cardinality({ p \in MatchedPairs : IsImprovement(p) })
            /\ \A p \in MatchedPairs :
                  /\ IsRegression(p) =>
                        \E k \in 1..Len(regs) :
                            /\ RecordOf(regs[k], p)
                            /\ FracEq(regs[k].degradation_percent, FracAbs(ChangeOf(p)))
                  /\ IsImprovement(p) =>
                        \E k \in 1..Len(imps) :
                            /\ RecordOf(imps[k], p)
                            /\ FracEq(imps[k].improvement_percent, ChangeOf(p))
                  /\ ~(IsRegression(p) /\ IsImprovement(p))
            /\ \A k \in 1..Len(regs), l \in 1..Len(imps) :
                  ~(/\ regs[k].implementation = imps[l].implementation
                    /\ regs[k].test = imps[l].test
                    /\ regs[k].category = imps[l].category
                    /\ regs[k].current_performance = imps[l].current_performance
                    /\ regs[k].baseline_performance = imps[l].baseline_performance)

\* baseline 100: current 90 is a 10% regression, current 110 a 10% improvement, and
\* current 95 (change exactly -5) gives no record
C13_Witness ==
    /\ Detected
    /\ Len(current_items[1][2]) = 2
    /\ \E p \in MatchedPairs : CurrentOf(p).ops_per_second = <<90, 1>>
    /\ \E p \in MatchedPairs : CurrentOf(p).ops_per_second = <<110, 1>>
    /\ Len(regression_results.regressions) = 1
    /\ FracEq(regression_results.regressions[1].degradation_percent, <<10, 1>>)
    /\ Len(regression_results.improvements) = 1
    /\ FracEq(regression_results.improvements[1].improvement_percent, <<10, 1>>)

\* C14: a current result is matched to a baseline entry only when implementation id,
\* test name, category and parameters are all equal: every record of the two lists is
\* about such a pair with baseline ops > 0, and a current result without one (other
\* parameters, implementation absent from the baseline, baseline ops not > 0) adds no
\* record to either list.
C14_ExactMatchOnly ==
    Detected =>
        LET regs == regression_results.regressions
            imps == regression_results.improvements
        IN  /\ \A k \in 1..Len(regs) : \E p \in MatchedPairs : RecordOf(regs[k], p)
            /\ \A k \in 1..Len(imps) : \E p \in MatchedPairs : RecordOf(imps[k], p)
            /\ Len(regs) + Len(imps)
                  <= Cardinality({ <<p[1], p[2]>> : p \in MatchedPairs })

\* a successful current result 10% below a baseline entry of the same implementation,
\* test and category but of other parameters: no record
C14_Witness ==
    /\ Detected
    /\ MatchedPairs = {}
    /\ current_items[1][2][1].success
    /\ current_items[1][2][1].ops_per_second = <<90, 1>>
    /\ current_items[1][1] \in DOMAIN baseline_results
    /\ \E k \in 1..Len(baseline_results[current_items[1][1]]) :
          LET b == baseline_results[current_items[1][1]][k]
          IN  /\ b.test_name = "fib" /\ b.category = "core"
              /\ b.parameters # current_items[1][2][1].parameters
              /\ b.ops_per_second = <<100, 1>>
    /\ regression_results.regressions = <<>>
    /\ regression_results.improvements = <<>>

-----------------------------------------------------------------------------
(* Properties of the consumers of result records *)

Succeeded(r) == r.success

\* results.items() without the records whose success is false
WithoutFailed(items) ==
    [i \in 1..Len(items) |-> <<items[i][1], SelectSeq(items[i][2], Succeeded)>>]

Organized == proc_pc \in {"statistics", "comparisons", "save"}

RawIndex == 1..Len(raw_results)

\* every record kept in organized_results
OrganizedRecords ==
    { organized_results[i][2][j][2][k] :
        <<i, j, k>> \in { <<i, j, k>> \in RawIndex \X RawIndex \X RawIndex :
                            /\ i <= Len(organized_results)
                            /\ j <= Len(organized_results[i][2])
                            /\ k <= Len(organized_results[i][2][j][2]) } }

\* C21: a result whose success is false never contributes: what
\* perform_statistical_analysis and detect_regressions return, and what
\* organize_results keeps, is what they return and keep when the failed records are
\* taken out of their input, and no failed record is among the organized ones
C21_FailedResultsNeverContribute ==
    /\ Analyzed =>
          statistical_results = perform_statistical_analysis(WithoutFailed(native_items))
    /\ Detected =>
          regression_results =
              detect_regressions("baseline.json",
                                 [readable |-> TRUE, content |-> baseline_results],
                                 WithoutFailed(current_items))
    /\ Organized =>
          /\ organized_results = organize_results(SelectSeq(raw_results, Succeeded))
          /\ \A r \in OrganizedRecords : r.success

\* an analysis of results with a failed record next to successful ones
C21_Witness ==
    /\ Analyzed
    /\ statistical_results # ZeroDivisionError
    /\ DOMAIN statistical_results.descriptive_stats # {}
    /\ \E i \in 1..Len(native_items) : \E j \in 1..Len(native_items[i][2]) :
          ~native_items[i][2][j].success

HasStatistics == proc_pc \in {"comparisons", "save"}

\* the impl_stats of generate_statistics, of every test and implementation
AllImplStats ==
    { stats_results[i][2][j][2] :
        <<i, j>> \in { <<i, j>> \in RawIndex \X RawIndex :
                         /\ i <= Len(stats_results)
                         /\ j <= Len(stats_results[i][2]) } }

\* generate_statistics emits duration_p25 / duration_p75 from four durations on only
DurationQuartilesFromFour ==
    HasStatistics =>
        \A st \in AllImplStats :
            /\ "duration_p25" \in DOMAIN st <=> st.count >= 4
            /\ "duration_p75" \in DOMAIN st <=> st.count >= 4

\* C22: descriptive statistics of a sample of size 1, 2 or 3 have no quartile
\* fields, and those of a sample of size 4 or more have them: q25 / q75 of
\* calculate_descriptive_stats, duration_p25 / duration_p75 of generate_statistics
C22_NoQuartilesBelowFour ==
    /\ (Analyzed /\ statistical_results # ZeroDivisionError) =>
          \A key \in DOMAIN statistical_results.descriptive_stats :
              LET st == statistical_results.descriptive_stats[key]
              IN  /\ "q25" \in DOMAIN st <=> st.count >= 4
                  /\ "q75" \in DOMAIN st <=> st.count >= 4
    /\ DurationQuartilesFromFour

-----------------------------------------------------------------------------
(* Properties of the sampling threads *)

\* the threads that are inside _monitor_loop
RunningThreads == { t \in Threads : thread_pc[t] \notin {"unborn", "done"} }

\* C23: at most one sampling thread of the monitor is running its loop at any time
C23_AtMostOneSampler == Cardinality(RunningThreads) <= 1

\* C24: the tick that samples the tracked processes raises no error and leaves no
\* exited process in the tracked set
C24_ExitedProcessUntracked ==
    [][\A t \in Threads :
          (thread_pc[t] = "processes" /\ thread_pc'[t] # "processes") =>
              /\ thread_pc'[t] = "sleep"
              /\ \A pid \in target_processes \ live : pid \notin target_processes']_vars

\* C25: a sampling failure is followed by the head of the loop, the loop goes on to the
\* next tick while monitoring is set, and a thread leaves the loop only at its head
\* with monitoring cleared
C25_FailureNeverEndsLoop ==
    [][\A t \in Threads :
          /\ (thread_pc[t] = "except" /\ thread_pc'[t] # "except") =>
                thread_pc'[t] = "loop"
          /\ (thread_pc[t] = "loop" /\ thread_pc'[t] # "loop" /\ monitoring) =>
                thread_pc'[t] = "collect"
          /\ (thread_pc[t] # "done" /\ thread_pc'[t] = "done") =>
                (thread_pc[t] = "loop" /\ ~monitoring)]_vars

\* a sampling thread in the except clause of the loop while monitoring is set
C25_Witness == \E t \in Threads : thread_pc[t] = "except" /\ monitoring

-----------------------------------------------------------------------------
(* Properties of the sweep of one implementation *)

\* the (category, test, combination) index triples of the configuration
SweepTriples ==
    UNION { UNION { { <<c, t, k>> :
                        k \in 1..Len(generate_parameter_combinations(
                                         config.test_categories[c].tests[t].parameters)) } :
                    t \in 1..Len(config.test_categories[c].tests) } :
            c \in 1..Len(config.test_categories) }

\* declared category order, then test order, then combination order
TripleBefore(x, y) ==
    \/ x[1] < y[1]
    \/ x[1] = y[1] /\ x[2] < y[2]
    \/ x[1] = y[1] /\ x[2] = y[2] /\ x[3] < y[3]

\* the position of a triple in that order
Position(x, triples) == 1 + Cardinality({ y \in triples : TripleBefore(y, x) })

\* record rec is the record of triple x
RecordOfTriple(rec, x) ==
    LET category == config.test_categories[x[1]]
        test == category.tests[x[2]]
    IN  /\ rec.category = category.name
        /\ rec.test_name = test.name
        /\ rec.parameters = generate_parameter_combinations(test.parameters)[x[3]]

\* list l holds the records of the first Len(l) triples, in order
InSweepOrder(l) ==
    l # <<>> =>
        LET triples == SweepTriples
        IN  /\ Len(l) <= Cardinality(triples)
            /\ \A x \in triples :
                  Position(x, triples) <= Len(l) => RecordOfTriple(l[Position(x, triples)], x)

\* C26: the sweep of one implementation is sequential and keeps the order: an
\* invocation of run_single_test starts with every earlier one returned, recorded and
\* its temporary file removed, at most one temporary file exists, and a finished list
\* has exactly one record per (category, test, combination), in declared category
\* order, then test order, then combination order
C26_SweepSequentialInOrder ==
    /\ (InSweep /\ CurrentImpl.id # "lambdust") =>
          /\ Len(impl_results) = job_i - 1
          /\ InSweepOrder(impl_results)
          /\ rst_pc = "idle" => temp_files = {}
          /\ rst_pc = "running" => temp_files = {files_created}
          /\ rst_pc = "returned" => temp_files = {}
    /\ \A id \in DOMAIN results :
          /\ Len(results[id]) = Len(Jobs)
          /\ Len(results[id]) = Cardinality(SweepTriples)
          /\ InSweepOrder(results[id])

\* a finished sweep over two categories, two tests and two combinations
C26_Witness ==
    /\ Len(config.test_categories) = 2
    /\ "chibi" \in DOMAIN results
    /\ Len(results["chibi"]) = 4

-----------------------------------------------------------------------------
(* Properties of run_single_test for every iteration count *)

\* C28: run_single_test never raises from its try block, and with zero timed
\* iterations it returns a record with success false and no timings
C28_AlwaysReturnsRecord ==
    /\ raised # "unbound-local"
    /\ (rst_pc = "returned" /\ config.iterations = 0) =>
          (~result.success /\ result.timing_results = <<>>)

\* the timed invocations of a log that did not exit 0
FailedInvocations(log) ==
    { i \in 1..Len(log) : ~execute_test_file(log[i]).success }

\* C29: in every record run_single_test returns, success is true exactly when there
\* are timings; the timings are at most the configured iterations and as many as the
\* 'iterations' field says; the timed invocations executed are the timings plus one
\* when one failed, and the failed one is the last; all 'warmup' untimed invocations
\* ran before, and the record is the one built from the timed invocations alone
C29_RecordMatchesInvocations ==
    rst_pc = "returned" =>
        /\ result.success <=> result.timing_results # <<>>
        /\ Len(result.timing_results) <= config.iterations
        /\ result.success => result.iterations = Len(result.timing_results)
        /\ Len(timed_log) = Len(result.timing_results)
                                + (IF FailedInvocations(timed_log) # {} THEN 1 ELSE 0)
        /\ FailedInvocations(timed_log) \subseteq {Len(timed_log)}
        /\ warm_i = config.warmup
        /\ result.timing_results = SuccessfulElapsed(timed_log)

\* a record returned after a warmup invocation, a timing and a failed invocation that
\* cut the run short
C29_Witness ==
    /\ rst_pc = "returned"
    /\ config.warmup >= 1
    /\ result.timing_results # <<>>
    /\ FailedInvocations(timed_log) # {}
    /\ Len(timed_log) < config.iterations

-----------------------------------------------------------------------------
(* Properties of the grouping of perform_statistical_analysis *)

\* the timings of all successful records of a list that are about test_key
RECURSIVE TimingsOfGroup(_, _)
TimingsOfGroup(recs, test_key) ==
    IF recs = <<>> THEN <<>>
    ELSE (IF Head(recs).success /\ TestKey(Head(recs)) = test_key
          THEN Head(recs).timing_results ELSE <<>>)
            \o TimingsOfGroup(Tail(recs), test_key)

\* C27: the statistics of a (category, test, implementation) group are those of the
\* timings of all its successful results, whatever their parameter combination
C27_AllCombinationsAggregated ==
    (Analyzed /\ statistical_results # ZeroDivisionError) =>
        \A i \in 1..Len(native_items) : \A j \in 1..Len(native_items[i][2]) :
            LET impl_id == native_items[i][1]
                test_key == TestKey(native_items[i][2][j])
                timings == TimingsOfGroup(native_items[i][2], test_key)
                key == test_key \o "_" \o impl_id
            IN  timings # <<>> =>
                    /\ key \in DOMAIN statistical_results.descriptive_stats
                    /\ statistical_results.descriptive_stats[key]
                          = calculate_descriptive_stats(timings)

-----------------------------------------------------------------------------
(* Properties of generate_comparisons *)

\* C30: for every test whose statistics have the configured baseline implementation,
\* relative performance and speedup are computed against that implementation,
\* whatever the tests before it were
C30_ConfiguredBaselinePerTest ==
    proc_pc = "save" =>
        \A i \in 1..Len(stats_results) :
            LET test_name == stats_results[i][1]
                test_stats == stats_results[i][2]
                configured == ConfiguredBaseline(output_config)
                relative == comparison_results.relative_performance
            IN  OrdHas(test_stats, configured) =>
                    /\ OrdHas(relative, test_name)
                    /\ \A j \in 1..Len(test_stats) :
                          LET impl_time == test_stats[j][2].duration_mean
                              baseline_time == OrdGet(test_stats, configured).duration_mean
                              c == OrdGet(OrdGet(relative, test_name), test_stats[j][1])
                          IN  /\ FracEq(c.relative_performance,
                                        FracDiv(impl_time, baseline_time))
                              /\ FracEq(c.speedup_factor,
                                        FracDiv(baseline_time, impl_time))

====
